---- MODULE Spec2Model ----
(***************************************************************************)
(* Model of the NVMe model-storage tier of crothmeier/openaiLLM:           *)
(*   - nvme_models/validators.py : Validator, SecurityValidator            *)
(*   - nvme_models/storage.py    : NVMeStorageManager (atomic placement)   *)
(*   - nvme_models/models/       : provider handlers                       *)
(*   - nvme_models/cache_manager.py : ModelCacheManager (index, patterns,  *)
(*     eviction, persistence)                                              *)
(*   - server/common/cost_tracker.py : CostTracker (budget check)          *)
(* Strings are sequences of one-character strings, so that prefix tests,   *)
(* character classes and regular expressions are computed, not assumed.    *)
(***************************************************************************)
EXTENDS Integers, Sequences, FiniteSets, TLC

(***************************************************************************)
(* Bounds of the model.                                                    *)
(***************************************************************************)
NumCallers == 2      \* concurrent callers of download_atomic on the host
MaxEstimate == 1     \* largest size estimate (GB) a handler returns
MaxAvailable == 2    \* largest free space (GB) the disk reports
MaxPathLen == 3      \* longest path (in components) given to validate_path
MaxIdLen == 3        \* longest short identifier given to validate_model_id
MaxTextLen == 2      \* longest text given to validate_command_injection
MaxTraversalLen == 4 \* longest text given to validate_path_traversal
MaxNameLen == 3      \* longest short name given to sanitize_for_filesystem
MaxTicks == 2        \* hours the clock advances while the cache manager runs
MaxRequests == 2     \* record_access calls per model between two force clears
MonthlyLimit == 15   \* monthly_limit_usd of the department, in 1e-4 USD

(***************************************************************************)
(* Characters and strings.                                                 *)
(***************************************************************************)
Lowers == {"a","b","c","d","e","f","g","h","i","j","k","l","m",
           "n","o","p","q","r","s","t","u","v","w","x","y","z"}
Uppers == {"A","B","C","D","E","F","G","H","I","J","K","L","M",
           "N","O","P","Q","R","S","T","U","V","W","X","Y","Z"}
Digits == {"0","1","2","3","4","5","6","7","8","9"}

\* str.startswith(prefix)
StartsWith(s, prefix) ==
    /\ Len(s) >= Len(prefix)
    /\ SubSeq(s, 1, Len(prefix)) = prefix

\* substring test: sub in s
Contains(s, sub) ==
    \E i \in 1..(Len(s) - Len(sub) + 1) : SubSeq(s, i, i + Len(sub) - 1) = sub

\* str.lower() on provider names
Lower(name) ==
    [i \in 1..Len(name) |->
        CASE name[i] = "H" -> "h"
          [] name[i] = "F" -> "f"
          [] name[i] = "O" -> "o"
          [] OTHER -> name[i]]

(***************************************************************************)
(* SecurityValidator.validate_model_id                                     *)
(***************************************************************************)
MaxModelIdLen == 256

\* the dangerous_chars list of validate_model_id; "BQ", "LF", "CR" and "NUL"
\* stand for the backquote, newline, carriage-return and NUL characters
dangerous_chars == {";", "|", "&", "$", "BQ", "(", ")", "{", "}", "<", ">",
                    "LF", "CR", "NUL"}

\* [a-zA-Z0-9_-]
NameChar(c) == c \in Lowers \cup Uppers \cup Digits \cup {"_", "-"}
\* [a-zA-Z0-9._-]
TagChar(c) == NameChar(c) \/ c = "."

\* ^[a-zA-Z0-9_-]+/[a-zA-Z0-9._-]+$
MatchesHF(id) ==
    \E i \in 2..(Len(id) - 1) :
        /\ id[i] = "/"
        /\ \A j \in 1..(i - 1) : NameChar(id[j])
        /\ \A j \in (i + 1)..Len(id) : TagChar(id[j])

\* ^[a-zA-Z0-9_-]+(:[a-zA-Z0-9._-]+)?$
MatchesOllama(id) ==
    \/ /\ Len(id) >= 1
       /\ \A j \in 1..Len(id) : NameChar(id[j])
    \/ \E i \in 2..(Len(id) - 1) :
        /\ id[i] = ":"
        /\ \A j \in 1..(i - 1) : NameChar(id[j])
        /\ \A j \in (i + 1)..Len(id) : TagChar(id[j])

huggingface == <<"h","u","g","g","i","n","g","f","a","c","e">>
ollama == <<"o","l","l","a","m","a">>
hf == <<"h","f">>
vllm == <<"v","l","l","m">>

\* mutant: any dot in the identifier counts as path traversal
validate_model_id_no_dot(model_id, provider) ==
    IF Len(model_id) = 0 THEN
        [ok |-> FALSE, reason |-> "empty"]
    ELSE IF Len(model_id) > MaxModelIdLen THEN
        [ok |-> FALSE, reason |-> "length"]
    ELSE IF \E i \in 1..Len(model_id) : model_id[i] \in dangerous_chars THEN
        [ok |-> FALSE, reason |-> "dangerous character"]
    ELSE IF \/ Contains(model_id, <<".">>)
            \/ StartsWith(model_id, <<"/">>)
            \/ StartsWith(model_id, <<"\\">>) THEN
        [ok |-> FALSE, reason |-> "path traversal"]
    ELSE IF Lower(provider) = huggingface THEN
        IF MatchesHF(model_id)
        THEN [ok |-> TRUE, reason |-> ""]
        ELSE [ok |-> FALSE, reason |-> "format"]
    ELSE IF Lower(provider) = ollama THEN
        IF MatchesOllama(model_id)
        THEN [ok |-> TRUE, reason |-> ""]
        ELSE [ok |-> FALSE, reason |-> "format"]
    ELSE
        [ok |-> FALSE, reason |-> "unknown provider"]

\* mutant: the path-traversal check comes before the dangerous characters
validate_model_id_traversal_first(model_id, provider) ==
    IF Len(model_id) = 0 THEN
        [ok |-> FALSE, reason |-> "empty"]
    ELSE IF Len(model_id) > MaxModelIdLen THEN
        [ok |-> FALSE, reason |-> "length"]
    ELSE IF \/ Contains(model_id, <<".", ".">>)
            \/ StartsWith(model_id, <<"/">>)
            \/ StartsWith(model_id, <<"\\">>) THEN
        [ok |-> FALSE, reason |-> "path traversal"]
    ELSE IF \E i \in 1..Len(model_id) : model_id[i] \in dangerous_chars THEN
        [ok |-> FALSE, reason |-> "dangerous character"]
    ELSE IF Lower(provider) = huggingface THEN
        IF MatchesHF(model_id)
        THEN [ok |-> TRUE, reason |-> ""]
        ELSE [ok |-> FALSE, reason |-> "format"]
    ELSE IF Lower(provider) = ollama THEN
        IF MatchesOllama(model_id)
        THEN [ok |-> TRUE, reason |-> ""]
        ELSE [ok |-> FALSE, reason |-> "format"]
    ELSE
        [ok |-> FALSE, reason |-> "unknown provider"]

\* returns (is_valid, error_message); the message is modelled by its kind
validate_model_id(model_id, provider) ==
    IF Len(model_id) = 0 THEN
        [ok |-> FALSE, reason |-> "empty"]
    ELSE IF Len(model_id) > MaxModelIdLen THEN
        [ok |-> FALSE, reason |-> "length"]
    ELSE IF \E i \in 1..Len(model_id) : model_id[i] \in dangerous_chars THEN
        [ok |-> FALSE, reason |-> "dangerous character"]
    ELSE IF \/ Contains(model_id, <<".", ".">>)
            \/ StartsWith(model_id, <<"/">>)
            \/ StartsWith(model_id, <<"\\">>) THEN
        [ok |-> FALSE, reason |-> "path traversal"]
    ELSE IF Lower(provider) = huggingface THEN
        IF MatchesHF(model_id)
        THEN [ok |-> TRUE, reason |-> ""]
        ELSE [ok |-> FALSE, reason |-> "format"]
    ELSE IF Lower(provider) = ollama THEN
        IF MatchesOllama(model_id)
        THEN [ok |-> TRUE, reason |-> ""]
        ELSE [ok |-> FALSE, reason |-> "format"]
    ELSE
        [ok |-> FALSE, reason |-> "unknown provider"]

(***************************************************************************)
(* Paths.  A path is the sequence of its components below "/"; a component *)
(* is a string.  Path.resolve() removes ".." and follows symbolic links.   *)
(***************************************************************************)
mnt == <<"m","n","t">>
nvme == <<"n","v","m","e">>
nvme2 == <<"n","v","m","e","2">>
etc == <<"e","t","c">>
mdl == <<"m">>
lnk == <<"l">>
dotdot == <<".", ".">>

\* the configured storage.nvme_path
nvme_path == <<mnt, nvme>>

\* the one symbolic link on the host: /mnt/nvme/l -> /etc
SymlinkAt == <<mnt, nvme, lnk>>
SymlinkTo == <<etc>>

RECURSIVE ResolveFrom(_, _)
ResolveFrom(done, rest) ==
    IF rest = <<>> THEN done
    ELSE IF Head(rest) = dotdot THEN
        ResolveFrom(IF done = <<>> THEN <<>> ELSE SubSeq(done, 1, Len(done) - 1),
                    Tail(rest))
    ELSE IF Append(done, Head(rest)) = SymlinkAt THEN
        ResolveFrom(SymlinkTo, Tail(rest))
    ELSE ResolveFrom(Append(done, Head(rest)), Tail(rest))

\* Path(path).resolve() of an absolute path
Resolve(path) == ResolveFrom(<<>>, path)

\* str(path): "/" before every component ("/" alone for the root)
RECURSIVE PathStr(_)
PathStr(path) ==
    IF path = <<>> THEN <<"/">>
    ELSE IF Len(path) = 1 THEN <<"/">> \o path[1]
    ELSE PathStr(SubSeq(path, 1, Len(path) - 1)) \o <<"/">> \o path[Len(path)]

\* base_path=None
NoBase == <<<<"None">>>>

\* Validator.validate_path(path, base_path): ok = FALSE is ValidationError
validate_path(path, base_path) ==
    LET validated_path == Resolve(path) IN
    IF base_path = NoBase THEN [ok |-> TRUE, path |-> validated_path]
    ELSE IF StartsWith(PathStr(validated_path), PathStr(Resolve(base_path)))
         THEN [ok |-> TRUE, path |-> validated_path]
         ELSE [ok |-> FALSE, path |-> validated_path]

(***************************************************************************)
(* Provider handlers and disk space (nvme_models/models, storage.py).      *)
(***************************************************************************)
\* get_provider_handler(provider, config): "None" for an unknown provider
get_provider_handler(provider) ==
    IF Lower(provider) \in {hf, huggingface} THEN "HuggingFaceHandler"
    ELSE IF Lower(provider) = ollama THEN "OllamaHandler"
    ELSE IF Lower(provider) = vllm THEN "VLLMHandler"
    ELSE "None"

\* mutant: no headroom for the fetch-then-materialize pattern
required_space_no_headroom(estimated_size) == estimated_size

\* required_space = estimated_size * 2
required_space(estimated_size) == estimated_size * 2

\* NVMeStorageManager.check_disk_space, given get_disk_usage()['available_gb']
check_disk_space(available_gb, required_gb) == available_gb >= required_gb

(***************************************************************************)
(* Artifacts: what a fetcher leaves in the staging directory.              *)
(***************************************************************************)
NoStaging == [shape |-> "absent", files |-> 0, size |-> 0]
EmptyStaging == [shape |-> "empty", files |-> 0, size |-> 0]
Artifacts ==
    {[shape |-> "missing", files |-> 0, size |-> 0],
     [shape |-> "dir", files |-> 0, size |-> 0],
     [shape |-> "dir", files |-> 1, size |-> 0],
     [shape |-> "dir", files |-> 1, size |-> 1],
     [shape |-> "file", files |-> 1, size |-> 0],
     [shape |-> "file", files |-> 1, size |-> 1]}

\* mutant: the size of the staged artifact is not looked at
validate_download_any_size(art, provider) ==
    IF art.shape \notin {"dir", "file"} THEN FALSE
    ELSE IF get_provider_handler(provider) = "HuggingFaceHandler" THEN
        art.shape = "dir" /\ art.files >= 1
    ELSE TRUE

\* NVMeStorageManager._validate_download(model_path, provider, model_id)
validate_download(art, provider) ==
    IF art.shape \notin {"dir", "file"} THEN FALSE
    ELSE IF get_provider_handler(provider) = "HuggingFaceHandler" THEN
        art.shape = "dir" /\ art.files >= 1 /\ art.size > 0
    ELSE IF art.shape = "dir" THEN art.files >= 1 /\ art.size > 0
    ELSE art.size > 0

\* mutant: a shared lock (LOCK_SH) is always granted
acquire_lock_shared(holders, p) == [ok |-> TRUE, holders |-> holders \cup {p}]

\* NVMeStorageManager._acquire_lock: flock(fd, LOCK_EX | LOCK_NB) on the one
\* lock file; holders is the set of callers holding a lock on it
acquire_lock(holders, p) ==
    IF holders = {} THEN [ok |-> TRUE, holders |-> {p}]
    ELSE [ok |-> FALSE, holders |-> holders]

\* NVMeStorageManager._release_lock: flock(fd, LOCK_UN); close(fd)
release_lock(holders, p) == holders \ {p}

(***************************************************************************)
(* State of the host: callers of NVMeStorageManager.download_atomic, the   *)
(* advisory lock file, the staging directories and the target locations.   *)
(***************************************************************************)
VARIABLES
    pc,           \* pc[p]: position of caller p inside download_atomic
    call,         \* call[p]: the arguments (provider, model_id, target_path)
    result,       \* result[p]: "ok" or the kind of the exception raised
    lockHolders,  \* callers holding the lock on <nvme_path>/.nvme_models.lock
    acquired,     \* acquired[p]: lock acquisitions of the current call
    released,     \* released[p]: lock releases of the current call
    handler,      \* handler[p]: the provider handler the call resolved
    space,        \* space[p]: required and available GB seen by the space check
    staging,      \* staging[p]: content of the call's staging directory
    fetches,      \* fetches[p]: calls of handler.download_to_path
    pre,          \* pre[p]: content of the target when the lock was taken
    moved,        \* moved[p]: the staged artifact renamed onto the target
    target,       \* target[loc]: "absent" or "artifact" (a complete artifact)
    backups,      \* backups[loc]: what the backup name of loc holds
    vpIn,         \* arguments of the Validator.validate_path call under test
    vpOut,        \* its outcome
    hCall,        \* the provider-handler operation being called
    hOut,         \* what it returned or raised
    hEffects,     \* the subprocess and file-system calls it made with the id
    hTemp,        \* its temporary download directory is on the disk
    fnIn,         \* the SecurityValidator function called and its arguments
    fnOut,        \* what it returned
    cache,        \* ModelCacheManager._cache, most recently used last
    patterns,     \* ModelCacheManager._usage_patterns, by model id
    markers,      \* model ids with a .delete_<model_id> marker file
    now,          \* time.time(), in seconds since the manager was built
    hour,         \* datetime.now().hour
    day,          \* datetime.now().weekday()
    accesses,     \* record_access calls per model since its entry was inserted
    lastOp,       \* the cache operation that ran last, and what it returned
    maxCacheSizeGb, \* ModelCacheManager.max_cache_size_gb
    observedLoad, \* load_time_ms the index last held for a model, 0 if none
    metadataFile, \* content of <cache_dir>/cache_metadata.json
    patternFile,  \* content of <cache_dir>/usage_patterns.pkl
    disk,         \* the entry paths that exist on the disk
    savedIndex,   \* the index as it was when cache_metadata.json was written
    threadPc,     \* where each thread of the manager's process stands
    cache_lock,   \* the thread that holds ModelCacheManager._cache_lock
    budget,       \* CostTracker._budgets[department] of one department
    costs,        \* CostTracker._costs: the cost of each entry, in order
    trackCall     \* the track_cost call each caller is in

placeVars == <<pc, call, result, lockHolders, acquired, released, handler,
               space, staging, fetches, pre, moved, target, backups>>
vpVars == <<vpIn, vpOut>>
hVars == <<hCall, hOut, hEffects, hTemp>>
fnVars == <<fnIn, fnOut>>
cacheVars == <<cache, patterns, markers, now, hour, day, accesses, lastOp,
               maxCacheSizeGb, observedLoad, metadataFile, patternFile, disk,
                  savedIndex, threadPc, cache_lock>>
costVars == <<budget, costs, trackCall>>
otherThanPlace == <<vpVars, hVars, fnVars, cacheVars, costVars>>
otherThanVp == <<placeVars, hVars, fnVars, cacheVars, costVars>>
otherThanHandlers == <<placeVars, vpVars, fnVars, cacheVars, costVars>>
otherThanValidators == <<placeVars, vpVars, hVars, cacheVars, costVars>>
otherThanCache == <<placeVars, vpVars, hVars, fnVars, costVars>>
otherThanCost == <<placeVars, vpVars, hVars, fnVars, cacheVars>>
vars == <<pc, call, result, lockHolders, acquired, released, handler,
          space, staging, fetches, pre, moved, target, backups, vpIn, vpOut,
          hCall, hOut, hEffects, hTemp, fnIn, fnOut,
          cache, patterns, markers, now, hour, day, accesses, lastOp,
          maxCacheSizeGb, observedLoad, metadataFile, patternFile, disk,
                  savedIndex, threadPc, cache_lock,
          budget, costs, trackCall>>

Callers == 1..NumCallers

\* model identifiers
id_hf == <<"a", "/", "b">>
id_ollama == <<"m", ":", "7">>
id_traversal == <<".", ".", "/", "x">>
id_injection == <<"m", ";", "x">>

\* target paths
target_hf == <<mnt, nvme, mdl>>
target_ollama == <<mnt, nvme, <<"o">>>>
target_sibling == <<mnt, nvme2, mdl>>
target_dotdot == <<mnt, nvme, dotdot, dotdot, etc, mdl>>
target_symlink == <<mnt, nvme, lnk, mdl>>

NoCall == [provider |-> <<>>, model_id |-> <<>>, target_path |-> <<>>]

\* the calls callers make: two valid calls for different models, and calls
\* whose identifier or target path must be rejected
Calls ==
    {[provider |-> huggingface, model_id |-> id_hf, target_path |-> target_hf],
     [provider |-> ollama, model_id |-> id_ollama, target_path |-> target_ollama],
     [provider |-> huggingface, model_id |-> id_hf, target_path |-> target_dotdot],
     [provider |-> huggingface, model_id |-> id_hf, target_path |-> target_symlink],
     [provider |-> huggingface, model_id |-> id_traversal, target_path |-> target_hf],
     [provider |-> ollama, model_id |-> id_injection, target_path |-> target_ollama],
     [provider |-> vllm, model_id |-> id_hf, target_path |-> target_hf]}

\* the calls both validators let through
AcceptedCalls ==
    {c \in Calls : /\ validate_model_id(c.model_id, c.provider).ok
                   /\ validate_path(c.target_path, nvme_path).ok}

\* A rejected call returns in one step and touches nothing shared, so which
\* caller makes it does not matter: the first caller makes every call, the
\* others the accepted ones.
CallsOf(p) == IF p = 1 THEN Calls ELSE AcceptedCalls

\* a call whose target is a sibling of nvme_path with nvme_path's name as a
\* prefix of its own: /mnt/nvme2/m
SiblingCalls ==
    {[provider |-> huggingface, model_id |-> id_hf, target_path |-> target_sibling]}

\* the file-system locations the target paths name
Locations == {Resolve(c.target_path) : c \in Calls \cup SiblingCalls}
Loc(p) == Resolve(call[p].target_path)

NoSpace == [estimate |-> 0, required |-> 0, available |-> 0]

PlaceInit ==
    /\ pc = [p \in Callers |-> "idle"]
    /\ call = [p \in Callers |-> NoCall]
    /\ result = [p \in Callers |-> "none"]
    /\ lockHolders = {}
    /\ acquired = [p \in Callers |-> 0]
    /\ released = [p \in Callers |-> 0]
    /\ handler = [p \in Callers |-> "None"]
    /\ space = [p \in Callers |-> NoSpace]
    /\ staging = [p \in Callers |-> NoStaging]
    /\ fetches = [p \in Callers |-> 0]
    /\ pre = [p \in Callers |-> "absent"]
    /\ moved = [p \in Callers |-> NoStaging]
    /\ target = [loc \in Locations |-> "absent"]
    /\ backups = [loc \in Locations |-> <<>>]

VpIdle == [path |-> <<>>, base |-> NoBase]
VpInit ==
    /\ vpIn = VpIdle
    /\ vpOut = "none"

NoHCall == [handler |-> "None", op |-> "none", model_id |-> <<>>]
HInit ==
    /\ hCall = NoHCall
    /\ hOut = "none"
    /\ hEffects = {}
    /\ hTemp = FALSE

NoFnIn == [fn |-> "none", arg |-> <<>>, provider |-> <<>>]
NoFnOut == [done |-> FALSE, ok |-> FALSE, reason |-> "", text |-> <<>>]
FnInit ==
    /\ fnIn = NoFnIn
    /\ fnOut = NoFnOut

\* the models the cache manager is asked about
CacheModels == {id_hf, id_ollama}
\* the hours at which the manager is built, on the last day of the week
StartHours == {23}
StartDays == {6}
NoPattern == [total_requests |-> 0]
NoOp == [op |-> "none", model_id |-> <<>>, raised |-> FALSE, arg |-> <<>>,
         ret |-> <<>>]
\* no file of that name in cache_dir
NoFile == [missing |-> TRUE]
\* a file whose writer failed after open(..., 'w') had truncated it
CorruptFile == [corrupt |-> TRUE]
\* the three daemon threads of _start_background_tasks and a thread that
\* calls the manager
Threads == {"eviction", "prediction", "persistence", "caller"}
\* every loop is in its time.sleep, the caller is outside the manager
ThreadsStarted == [t \in Threads |-> [at |-> "idle", model_id |-> <<>>]]
Unlocked == "nobody"
\* __init__'s default for max_cache_size_gb
max_cache_size_gb == 500

\* a manager built on an empty cache directory with the given
\* max_cache_size_gb, about to be asked about the models ids
CacheInitFor(ids, max_gb) ==
    /\ cache = <<>>
    /\ patterns = [m \in ids |-> NoPattern]
    /\ markers = {}
    /\ now = 0
    /\ hour \in StartHours
    /\ day \in StartDays
    /\ accesses = [m \in ids |-> 0]
    /\ lastOp = NoOp
    /\ maxCacheSizeGb = max_gb
    /\ observedLoad = [m \in ids |-> 0]
    /\ metadataFile = NoFile
    /\ patternFile = NoFile
    /\ disk = {}
    /\ savedIndex = <<>>
    /\ threadPc = ThreadsStarted
    /\ cache_lock = Unlocked

CacheInit == CacheInitFor(CacheModels, max_cache_size_gb)

\* CostTracker.MODEL_PRICING['default'], in 1e-4 USD per 1000 tokens
DefaultPricePer1k == 5
\* no track_cost call
NoTrack == [at |-> "idle", cost_usd |-> 0, ret |-> <<>>]
\* a tracker that has loaded the hard-limit budget of the department and
\* no costs
CostInit ==
    /\ budget = [current_spend_usd |-> 0, monthly_limit_usd |-> MonthlyLimit,
                 is_hard_limit |-> TRUE]
    /\ costs = <<>>
    /\ trackCall = [c \in Callers |-> NoTrack]

OtherInit == PlaceInit /\ VpInit /\ HInit /\ FnInit /\ CostInit
Init == OtherInit /\ CacheInit

(***************************************************************************)
(* download_atomic(provider, model_id, target_path), step by step.         *)
(***************************************************************************)
\* mutant: the outcome of validate_model_id is not looked at
Begin_unvalidated(p, c) ==
    /\ pc[p] = "idle"
    /\ call' = [call EXCEPT ![p] = c]
    /\ IF ~validate_path(c.target_path, nvme_path).ok THEN
            /\ pc' = [pc EXCEPT ![p] = "done"]
            /\ result' = [result EXCEPT ![p] = "PathBoundaryViolation"]
       ELSE
            /\ pc' = [pc EXCEPT ![p] = "acquire"]
            /\ UNCHANGED result
    /\ UNCHANGED <<lockHolders, acquired, released, handler, space, staging,
                   fetches, pre, moved, target, backups>>
    /\ UNCHANGED otherThanPlace

\* steps 1-2: validate the identifier, then the target path
Begin(p, c) ==
    /\ pc[p] = "idle"
    /\ call' = [call EXCEPT ![p] = c]
    /\ IF ~validate_model_id(c.model_id, c.provider).ok THEN
            /\ pc' = [pc EXCEPT ![p] = "done"]
            /\ result' = [result EXCEPT ![p] = "InvalidIdentifier"]
       ELSE IF ~validate_path(c.target_path, nvme_path).ok THEN
            /\ pc' = [pc EXCEPT ![p] = "done"]
            /\ result' = [result EXCEPT ![p] = "PathBoundaryViolation"]
       ELSE
            /\ pc' = [pc EXCEPT ![p] = "acquire"]
            /\ UNCHANGED result
    /\ UNCHANGED <<lockHolders, acquired, released, handler, space, staging,
                   fetches, pre, moved, target, backups>>
    /\ UNCHANGED otherThanPlace

\* mutant: flock without LOCK_NB waits until the lock is free
AcquireLock_blocking(p) ==
    /\ pc[p] = "acquire"
    /\ lockHolders = {}
    /\ lockHolders' = {p}
    /\ pc' = [pc EXCEPT ![p] = "get_handler"]
    /\ acquired' = [acquired EXCEPT ![p] = @ + 1]
    /\ pre' = [pre EXCEPT ![p] = target[Loc(p)]]
    /\ UNCHANGED <<call, result, released, handler, space, staging, fetches,
                   moved, target, backups>>
    /\ UNCHANGED otherThanPlace

\* step 3: lock_fd = self._acquire_lock()
AcquireLock(p) ==
    /\ pc[p] = "acquire"
    /\ LET r == acquire_lock(lockHolders, p) IN
        /\ lockHolders' = r.holders
        /\ IF r.ok THEN
                /\ pc' = [pc EXCEPT ![p] = "get_handler"]
                /\ acquired' = [acquired EXCEPT ![p] = @ + 1]
                /\ pre' = [pre EXCEPT ![p] = target[Loc(p)]]
                /\ UNCHANGED result
           ELSE
                /\ pc' = [pc EXCEPT ![p] = "done"]
                /\ result' = [result EXCEPT ![p] = "LockContention"]
                /\ UNCHANGED <<acquired, pre>>
    /\ UNCHANGED <<call, released, handler, space, staging, fetches, moved,
                   target, backups>>
    /\ UNCHANGED otherThanPlace

\* step 4: handler = get_provider_handler(provider, self.config)
GetHandler(p) ==
    /\ pc[p] = "get_handler"
    /\ handler' = [handler EXCEPT ![p] = get_provider_handler(call[p].provider)]
    /\ IF handler'[p] = "None" THEN
            /\ pc' = [pc EXCEPT ![p] = "finally"]
            /\ result' = [result EXCEPT ![p] = "UnknownProvider"]
       ELSE
            /\ pc' = [pc EXCEPT ![p] = "check_space"]
            /\ UNCHANGED result
    /\ UNCHANGED <<call, lockHolders, acquired, released, space, staging,
                   fetches, pre, moved, target, backups>>
    /\ UNCHANGED otherThanPlace

\* step 5: the estimate and the free space are what the handler and the
\* disk report
CheckSpace(p) ==
    /\ pc[p] = "check_space"
    /\ \E estimated_size \in 1..MaxEstimate, available_gb \in 0..MaxAvailable :
        /\ space' = [space EXCEPT ![p] =
                        [estimate |-> estimated_size,
                         required |-> required_space(estimated_size),
                         available |-> available_gb]]
        /\ IF check_disk_space(available_gb, required_space(estimated_size)) THEN
                /\ pc' = [pc EXCEPT ![p] = "mkdtemp"]
                /\ UNCHANGED result
           ELSE
                /\ pc' = [pc EXCEPT ![p] = "finally"]
                /\ result' = [result EXCEPT ![p] = "InsufficientSpace"]
    /\ UNCHANGED <<call, lockHolders, acquired, released, handler, staging,
                   fetches, pre, moved, target, backups>>
    /\ UNCHANGED otherThanPlace

\* step 6: tempfile.mkdtemp(prefix='.tmp_', suffix=..., dir=self.nvme_path)
MakeStaging(p) ==
    /\ pc[p] = "mkdtemp"
    /\ staging' = [staging EXCEPT ![p] = EmptyStaging]
    /\ space' = [space EXCEPT ![p] = NoSpace]
    /\ pc' = [pc EXCEPT ![p] = "fetch"]
    /\ UNCHANGED <<call, result, lockHolders, acquired, released, handler,
                   fetches, pre, moved, target, backups>>
    /\ UNCHANGED otherThanPlace

\* step 7: handler.download_to_path(model_id, temp_path) returns True or
\* False or raises, leaving art in the staging directory
Fetch(p) ==
    /\ pc[p] = "fetch"
    /\ \E art \in Artifacts, outcome \in {"True", "False", "raise"} :
        /\ staging' = [staging EXCEPT ![p] = art]
        /\ fetches' = [fetches EXCEPT ![p] = @ + 1]
        /\ IF outcome = "True" THEN
                /\ pc' = [pc EXCEPT ![p] = "validate"]
                /\ UNCHANGED result
           ELSE
                /\ pc' = [pc EXCEPT ![p] = "cleanup"]
                /\ result' = [result EXCEPT ![p] = "FetchFailed"]
    /\ UNCHANGED <<call, lockHolders, acquired, released, handler, space,
                   pre, moved, target, backups>>
    /\ UNCHANGED otherThanPlace

\* step 8: self._validate_download(temp_path, provider, model_id)
Validate(p) ==
    /\ pc[p] = "validate"
    /\ IF validate_download(staging[p], call[p].provider) THEN
            /\ pc' = [pc EXCEPT ![p] = "backup"]
            /\ UNCHANGED result
       ELSE
            /\ pc' = [pc EXCEPT ![p] = "cleanup"]
            /\ result' = [result EXCEPT ![p] = "ArtifactValidationFailed"]
    /\ UNCHANGED <<call, lockHolders, acquired, released, handler, space,
                   staging, fetches, pre, moved, target, backups>>
    /\ UNCHANGED otherThanPlace

\* shutil.move(str(target_dir), str(backup_dir)) where backup_dir is
\* target_dir.with_suffix('.backup.<pid>'), one name per target for the
\* process. backup is what that name holds: <<>> when it does not exist,
\* <<c>> when it is the directory c moved there, <<c, d>> when d was moved
\* into it as backup_dir/<target name>. A third move finds
\* backup_dir/<target name> taken and raises shutil.Error.
backup_move(content, backup) ==
    IF Len(backup) < 2
    THEN [ok |-> TRUE, backup |-> Append(backup, content)]
    ELSE [ok |-> FALSE, backup |-> backup]

\* step 9a: if target_path.exists(): shutil.move(target, backup)
BackupPrior(p) ==
    /\ pc[p] = "backup"
    /\ IF target[Loc(p)] = "absent" THEN
            /\ pc' = [pc EXCEPT ![p] = "move"]
            /\ UNCHANGED <<target, backups, result>>
       ELSE LET r == backup_move(target[Loc(p)], backups[Loc(p)]) IN
            IF r.ok THEN
                /\ backups' = [backups EXCEPT ![Loc(p)] = r.backup]
                /\ target' = [target EXCEPT ![Loc(p)] = "absent"]
                /\ pc' = [pc EXCEPT ![p] = "move"]
                /\ UNCHANGED result
            ELSE
                /\ pc' = [pc EXCEPT ![p] = "cleanup"]
                /\ result' = [result EXCEPT ![p] = "PlacementFailed"]
                /\ UNCHANGED <<target, backups>>
    /\ UNCHANGED <<call, lockHolders, acquired, released, handler,
                   space, staging, fetches, pre, moved>>
    /\ UNCHANGED otherThanPlace

\* step 9b: shutil.move(staging, target_path) succeeds or raises OSError
Move(p) ==
    /\ pc[p] = "move"
    /\ \E moveOk \in BOOLEAN :
        IF moveOk THEN
            /\ target' = [target EXCEPT ![Loc(p)] = "artifact"]
            /\ moved' = [moved EXCEPT ![p] = staging[p]]
            /\ staging' = [staging EXCEPT ![p] = NoStaging]
            /\ pc' = [pc EXCEPT ![p] = "finally"]
            /\ result' = [result EXCEPT ![p] = "ok"]
        ELSE
            /\ pc' = [pc EXCEPT ![p] = "cleanup"]
            /\ result' = [result EXCEPT ![p] = "PlacementFailed"]
            /\ UNCHANGED <<target, moved, staging>>
    /\ UNCHANGED <<call, lockHolders, acquired, released, handler, space,
                   fetches, pre, backups>>
    /\ UNCHANGED otherThanPlace

\* mutant: the exception leaves download_atomic without passing the release
Cleanup_no_finally(p) ==
    /\ pc[p] = "cleanup"
    /\ staging' = [staging EXCEPT ![p] = NoStaging]
    /\ pc' = [pc EXCEPT ![p] = "done"]
    /\ space' = [space EXCEPT ![p] = NoSpace]
    /\ pre' = [pre EXCEPT ![p] = "absent"]
    /\ moved' = [moved EXCEPT ![p] = NoStaging]
    /\ handler' = [handler EXCEPT ![p] = "None"]
    /\ fetches' = [fetches EXCEPT ![p] = 0]
    /\ call' = [call EXCEPT ![p] = NoCall]
    /\ UNCHANGED <<result, lockHolders, acquired, released, target, backups>>
    /\ UNCHANGED otherThanPlace

\* mutant: the staging directory is not removed
Cleanup_keeps_staging(p) ==
    /\ pc[p] = "cleanup"
    /\ pc' = [pc EXCEPT ![p] = "finally"]
    /\ UNCHANGED <<call, result, lockHolders, acquired, released, handler,
                   space, staging, fetches, pre, moved, target, backups>>
    /\ UNCHANGED otherThanPlace

\* except: if temp_dir.exists(): shutil.rmtree(temp_dir); raise
Cleanup(p) ==
    /\ pc[p] = "cleanup"
    /\ staging' = [staging EXCEPT ![p] = NoStaging]
    /\ pc' = [pc EXCEPT ![p] = "finally"]
    /\ UNCHANGED <<call, result, lockHolders, acquired, released, handler,
                   space, fetches, pre, moved, target, backups>>
    /\ UNCHANGED otherThanPlace

\* step 10: finally: if lock_fd is not None: self._release_lock(lock_fd);
\* the frame of the call is gone, its result and lock counts remain
Finally(p) ==
    /\ pc[p] = "finally"
    /\ IF acquired[p] > 0 THEN
            /\ lockHolders' = release_lock(lockHolders, p)
            /\ released' = [released EXCEPT ![p] = @ + 1]
       ELSE UNCHANGED <<lockHolders, released>>
    /\ pc' = [pc EXCEPT ![p] = "done"]
    /\ space' = [space EXCEPT ![p] = NoSpace]
    /\ pre' = [pre EXCEPT ![p] = "absent"]
    /\ moved' = [moved EXCEPT ![p] = NoStaging]
    /\ handler' = [handler EXCEPT ![p] = "None"]
    /\ fetches' = [fetches EXCEPT ![p] = 0]
    /\ call' = [call EXCEPT ![p] = NoCall]
    /\ UNCHANGED <<result, acquired, staging, target, backups>>
    /\ UNCHANGED otherThanPlace

\* the call has returned or raised; the caller is free for its next call
Return(p) ==
    /\ pc[p] = "done"
    /\ pc' = [pc EXCEPT ![p] = "idle"]
    /\ call' = [call EXCEPT ![p] = NoCall]
    /\ result' = [result EXCEPT ![p] = "none"]
    /\ acquired' = [acquired EXCEPT ![p] = 0]
    /\ released' = [released EXCEPT ![p] = 0]
    /\ UNCHANGED <<lockHolders, handler, space, staging, fetches, pre, moved,
                   target, backups>>
    /\ UNCHANGED otherThanPlace

Next ==
    \/ \E p \in Callers : \E c \in CallsOf(p) : Begin(p, c)
    \/ \E p \in Callers : AcquireLock(p)
    \/ \E p \in Callers : GetHandler(p)
    \/ \E p \in Callers : CheckSpace(p)
    \/ \E p \in Callers : MakeStaging(p)
    \/ \E p \in Callers : Fetch(p)
    \/ \E p \in Callers : Validate(p)
    \/ \E p \in Callers : BackupPrior(p)
    \/ \E p \in Callers : Move(p)
    \/ \E p \in Callers : Cleanup(p)
    \/ \E p \in Callers : Finally(p)
    \/ \E p \in Callers : Return(p)

Spec == Init /\ [][Next]_vars

\* the same callers, also making the call with the sibling target
NextSibling ==
    \/ \E p \in Callers : \E c \in CallsOf(p) \cup SiblingCalls : Begin(p, c)
    \/ \E p \in Callers : AcquireLock(p)
    \/ \E p \in Callers : GetHandler(p)
    \/ \E p \in Callers : CheckSpace(p)
    \/ \E p \in Callers : MakeStaging(p)
    \/ \E p \in Callers : Fetch(p)
    \/ \E p \in Callers : Validate(p)
    \/ \E p \in Callers : BackupPrior(p)
    \/ \E p \in Callers : Move(p)
    \/ \E p \in Callers : Cleanup(p)
    \/ \E p \in Callers : Finally(p)
    \/ \E p \in Callers : Return(p)

SpecSibling == Init /\ [][NextSibling]_vars

(***************************************************************************)
(* Validator.validate_path as a function of its arguments: a caller hands  *)
(* it a path and a base path and gets the resolved path or ValidationError.*)
(***************************************************************************)
PathComponents == {mnt, nvme, nvme2, etc, mdl, lnk, dotdot}
PathsUpTo(n) == UNION {[1..k -> PathComponents] : k \in 0..n}
BasePaths == {NoBase, nvme_path, <<mnt>>, <<etc>>, <<>>}

VpCall(path, base) ==
    /\ vpOut = "none"
    /\ vpIn' = [path |-> path, base |-> base]
    /\ vpOut' = IF validate_path(path, base).ok THEN "returned"
                ELSE "ValidationError"
    /\ UNCHANGED otherThanVp

VpReturn ==
    /\ vpOut # "none"
    /\ vpIn' = VpIdle
    /\ vpOut' = "none"
    /\ UNCHANGED otherThanVp

NextValidatePath ==
    \/ /\ vpOut = "none"
       /\ \E path \in PathsUpTo(MaxPathLen), base \in BasePaths : VpCall(path, base)
    \/ VpReturn

SpecValidatePath == Init /\ [][NextValidatePath]_vars

(***************************************************************************)
(* The provider handlers: HuggingFaceHandler, OllamaHandler, VLLMHandler.  *)
(* Each operation is called with a model identifier and an environment     *)
(* (does the model exist, is the tool or service there, how do the         *)
(* subprocess and the move end) and makes subprocess and file-system calls *)
(* with the identifier.                                                    *)
(***************************************************************************)
\* \w of the Validator patterns, over the characters of the model
WordChar(c) == c \in Lowers \cup Uppers \cup Digits \cup {"_"}

\* pattern.match with a trailing $: $ matches at the end of the string and
\* just before a newline that ends the string
DollarCandidates(s) ==
    IF Len(s) > 0 /\ s[Len(s)] = "LF"
    THEN {s, SubSeq(s, 1, Len(s) - 1)}
    ELSE {s}

\* Validator.HF_MODEL_PATTERN: ^[\w\-\.]+/[\w\-\.]+$
HF_MODEL_PATTERN(s) ==
    \E t \in DollarCandidates(s) :
        \E i \in 2..(Len(t) - 1) :
            /\ t[i] = "/"
            /\ \A j \in (1..Len(t)) \ {i} : WordChar(t[j]) \/ t[j] \in {"-", "."}

\* Validator.OLLAMA_MODEL_PATTERN: ^[\w\-\.:]+$
OLLAMA_MODEL_PATTERN(s) ==
    \E t \in DollarCandidates(s) :
        /\ Len(t) >= 1
        /\ \A j \in 1..Len(t) : WordChar(t[j]) \/ t[j] \in {"-", ".", ":"}

\* Validator.validate_hf_model_id: TRUE when it returns, FALSE when it
\* raises ValidationError
validate_hf_model_id(model_id) ==
    /\ Len(model_id) > 0
    /\ HF_MODEL_PATTERN(model_id)
    /\ ~(Contains(model_id, <<".", ".">>) \/ StartsWith(model_id, <<"/">>))

\* Validator.validate_ollama_model: TRUE when it returns, FALSE when it
\* raises ValidationError
validate_ollama_model(model_name) ==
    /\ Len(model_name) > 0
    /\ OLLAMA_MODEL_PATTERN(model_name)
    /\ ~(Contains(model_name, <<".", ".">>) \/ StartsWith(model_name, <<"/">>))

\* the environment of one handler call
Envs == [exists : BOOLEAN, available : BOOLEAN,
         outcome : {"ok", "CalledProcessError", "OSError"}]

HResult(out, effects, temp) == [out |-> out, effects |-> effects, temp |-> temp]

\* HuggingFaceHandler.download: the outcome of validate_model_id is a tuple
\* that is dropped; validate_hf_model_id raises ValidationError, which the
\* outer handler turns into False
hf_download(model_id, env) ==
    IF ~validate_hf_model_id(model_id) THEN HResult("False", {}, FALSE)
    ELSE IF ~env.available THEN HResult("False", {}, FALSE)
    ELSE IF env.outcome = "CalledProcessError" THEN
        HResult("False", {"mkdir", "subprocess.run", "shutil.rmtree"}, FALSE)
    ELSE IF env.outcome = "OSError" THEN
        HResult("False", {"mkdir", "subprocess.run", "shutil.move"}, TRUE)
    ELSE
        HResult("True", {"mkdir", "subprocess.run", "shutil.move", "open"}, FALSE)

\* HuggingFaceHandler.delete_model
hf_delete_model(model_name, env) ==
    IF ~env.exists THEN HResult("False", {}, FALSE)
    ELSE IF env.outcome = "OSError" THEN HResult("False", {"shutil.move"}, FALSE)
    ELSE HResult("True", {"shutil.move"}, FALSE)

\* HuggingFaceHandler.verify_model and VLLMHandler.verify_model only read
\* the model directory
hf_verify_model(model_name, env) == HResult("returned", {}, FALSE)
vllm_verify_model(model_name, env) == HResult("returned", {}, FALSE)

\* the three estimate_model_size: no subprocess, no file-system call
hf_estimate_model_size(model_id, env) == HResult("returned", {}, FALSE)
ollama_estimate_model_size(model_name, env) == HResult("returned", {}, FALSE)
vllm_estimate_model_size(model_id, env) == HResult("returned", {}, FALSE)

\* OllamaHandler.download: ollama pull <model_name>
ollama_download(model_name, env) ==
    IF ~validate_ollama_model(model_name) THEN HResult("False", {}, FALSE)
    ELSE IF ~env.available THEN HResult("False", {}, FALSE)
    ELSE IF env.outcome = "ok" THEN HResult("True", {"subprocess.run"}, FALSE)
    ELSE HResult("False", {"subprocess.run"}, FALSE)

\* OllamaHandler.delete_model: ollama rm <model_name>
ollama_delete_model(model_name, env) ==
    IF ~env.available THEN HResult("False", {}, FALSE)
    ELSE IF env.outcome = "ok" THEN HResult("True", {"subprocess.run"}, FALSE)
    ELSE HResult("False", {"subprocess.run"}, FALSE)

\* OllamaHandler.run_model: ollama run <model_name> <prompt>
ollama_run_model(model_name, env) ==
    IF ~env.available THEN HResult("returned", {}, FALSE)
    ELSE HResult("returned", {"subprocess.run"}, FALSE)

\* OllamaHandler.verify_model: ollama show <model_name> when the model is
\* listed
ollama_verify_model(model_name, env) ==
    IF ~env.available THEN HResult("returned", {}, FALSE)
    ELSE IF env.exists THEN HResult("returned", {"subprocess.run"}, FALSE)
    ELSE HResult("returned", {}, FALSE)

\* VLLMHandler.download delegates to HuggingFaceHandler.download
vllm_download(model_id, env) == hf_download(model_id, env)

HandlerOps ==
    {<<"huggingface", "download">>, <<"huggingface", "delete_model">>,
     <<"huggingface", "verify_model">>, <<"huggingface", "estimate_model_size">>,
     <<"ollama", "download">>, <<"ollama", "delete_model">>,
     <<"ollama", "run_model">>, <<"ollama", "verify_model">>,
     <<"ollama", "estimate_model_size">>,
     <<"vllm", "download">>, <<"vllm", "verify_model">>,
     <<"vllm", "estimate_model_size">>}

\* the operation op of handler h on the identifier id
handler_operation(h, op, id, env) ==
    CASE <<h, op>> = <<"huggingface", "download">> -> hf_download(id, env)
      [] <<h, op>> = <<"huggingface", "delete_model">> -> hf_delete_model(id, env)
      [] <<h, op>> = <<"huggingface", "verify_model">> -> hf_verify_model(id, env)
      [] <<h, op>> = <<"huggingface", "estimate_model_size">> ->
            hf_estimate_model_size(id, env)
      [] <<h, op>> = <<"ollama", "download">> -> ollama_download(id, env)
      [] <<h, op>> = <<"ollama", "delete_model">> -> ollama_delete_model(id, env)
      [] <<h, op>> = <<"ollama", "run_model">> -> ollama_run_model(id, env)
      [] <<h, op>> = <<"ollama", "verify_model">> -> ollama_verify_model(id, env)
      [] <<h, op>> = <<"ollama", "estimate_model_size">> ->
            ollama_estimate_model_size(id, env)
      [] <<h, op>> = <<"vllm", "download">> -> vllm_download(id, env)
      [] <<h, op>> = <<"vllm", "verify_model">> -> vllm_verify_model(id, env)
      [] <<h, op>> = <<"vllm", "estimate_model_size">> ->
            vllm_estimate_model_size(id, env)

\* the grammar validate_model_id applies to the identifiers of a handler;
\* vLLM serves HuggingFace models
handler_provider(h) == IF h = "ollama" THEN ollama ELSE huggingface

\* an organisation name with a dot, and a model name ending in a newline
id_dotted_org == <<"a", ".", "b", "/", "c">>
id_trailing_newline == <<"a", "/", "b", "LF">>
id_plain == <<"m">>
HandlerIds == {id_hf, id_ollama, id_plain, id_traversal, id_injection,
               id_dotted_org, id_trailing_newline}

HandlerCall(h, op, id) ==
    /\ hOut = "none"
    /\ \E env \in Envs :
        LET r == handler_operation(h, op, id, env) IN
            /\ hCall' = [handler |-> h, op |-> op, model_id |-> id]
            /\ hOut' = r.out
            /\ hEffects' = r.effects
            /\ hTemp' = IF "mkdir" \in r.effects THEN r.temp ELSE hTemp
    /\ UNCHANGED otherThanHandlers

\* the caller has the result; what the call left on the disk stays
HandlerReturn ==
    /\ hOut # "none"
    /\ hCall' = NoHCall
    /\ hOut' = "none"
    /\ hEffects' = {}
    /\ UNCHANGED hTemp
    /\ UNCHANGED otherThanHandlers

NextHandlers ==
    \/ \E ho \in HandlerOps, id \in HandlerIds : HandlerCall(ho[1], ho[2], id)
    \/ HandlerReturn

SpecHandlers == Init /\ [][NextHandlers]_vars

(***************************************************************************)
(* The SecurityValidator functions as functions of their arguments: a      *)
(* caller hands one of them a string and gets its result.                  *)
(***************************************************************************)
\* the dangerous_chars list of validate_command_injection
command_injection_chars == {";", "|", "&", "$", "BQ", "(", ")", "{", "}",
                            "<", ">", "LF", "CR"}

\* SecurityValidator.validate_command_injection
validate_command_injection(input_str) ==
    ~\E i \in 1..Len(input_str) : input_str[i] \in command_injection_chars

\* str.isalpha() on one character of the model
IsAlpha(c) == c \in Lowers \cup Uppers

\* SecurityValidator.validate_path_traversal
validate_path_traversal(path) ==
    IF Contains(path, <<".", ".", "/">>) \/ Contains(path, <<".", ".", "\\">>)
    THEN FALSE
    ELSE IF StartsWith(path, <<"/">>) THEN FALSE
    ELSE IF Len(path) >= 2 /\ path[2] = ":" /\ IsAlpha(path[1]) THEN FALSE
    ELSE IF StartsWith(path, <<"\\", "\\">>) THEN FALSE
    ELSE TRUE

\* str.lstrip(chars), str.rstrip(chars), str.strip(chars)
LStrip(s, chars) ==
    IF \A i \in 1..Len(s) : s[i] \in chars THEN <<>>
    ELSE LET k == CHOOSE i \in 1..Len(s) :
                    s[i] \notin chars /\ \A j \in 1..(i - 1) : s[j] \in chars
         IN SubSeq(s, k, Len(s))
RStrip(s, chars) ==
    IF \A i \in 1..Len(s) : s[i] \in chars THEN <<>>
    ELSE LET k == CHOOSE i \in 1..Len(s) :
                    s[i] \notin chars /\ \A j \in (i + 1)..Len(s) : s[j] \in chars
         IN SubSeq(s, 1, k)
Strip(s, chars) == RStrip(LStrip(s, chars), chars)

\* the length limit of sanitize_for_filesystem
MaxFilesystemNameLen == 255
unnamed == <<"u", "n", "n", "a", "m", "e", "d">>

\* re.sub(r'[^a-zA-Z0-9._\-]', '_', name)
ReplaceDisallowed(name) ==
    [i \in 1..Len(name) |-> IF TagChar(name[i]) THEN name[i] ELSE "_"]

\* SecurityValidator.sanitize_for_filesystem
sanitize_for_filesystem(name) ==
    LET stripped == Strip(name, {" ", "."})
        replaced == ReplaceDisallowed(stripped)
        undotted == RStrip(LStrip(replaced, {"."}), {"."})
        limited == IF Len(undotted) > MaxFilesystemNameLen
                   THEN SubSeq(undotted, 1, MaxFilesystemNameLen)
                   ELSE undotted
    IN IF limited = <<>> THEN unnamed ELSE limited

\* the strings of at most n characters over chars
StringsUpTo(chars, n) == UNION {[1..k -> chars] : k \in 0..n}
\* the character c, n times
Rep(c, n) == [i \in 1..n |-> c]

\* identifiers given to validate_model_id: all short ones over a few
\* characters, and long ones around the 256-character limit
ModelIdChars == {"a", "B", "7", "-", ".", "/", ":", ";", "\\", "NUL"}
LongModelIds ==
    {prefix \o Rep("a", n - Len(prefix)) :
        prefix \in {<<"a", "/">>, <<"a", "/", ".", ".">>, <<"a", "/", ";">>, <<>>},
        n \in {MaxModelIdLen - 1, MaxModelIdLen, MaxModelIdLen + 1}}
ModelIds == StringsUpTo(ModelIdChars, MaxIdLen) \cup LongModelIds
Providers == {huggingface, ollama, vllm, <<"O", "l", "l", "a", "m", "a">>,
              <<"H", "u", "g", "g", "i", "n", "g", "F", "a", "c", "e">>}

\* texts given to validate_command_injection
InjectionTextChars == command_injection_chars \cup {"NUL", "a", "-", " "}
\* texts given to validate_path_traversal
TraversalTextChars == {"a", "C", "7", ".", "/", "\\", ":"}
\* names given to sanitize_for_filesystem
NameTextChars == {"a", ".", " ", "/", "_", "-"}
LongNames ==
    {Rep("a", MaxFilesystemNameLen - 1) \o tail :
        tail \in {<<>>, <<"a">>, <<"a", "a">>, <<".">>, <<".", "b">>,
                  <<"/", "b">>, <<".", ".", "b">>}}
Names == StringsUpTo(NameTextChars, MaxNameLen) \cup LongNames

CallValidateModelId(model_id, provider) ==
    /\ ~fnOut.done
    /\ fnIn' = [fn |-> "validate_model_id", arg |-> model_id, provider |-> provider]
    /\ LET r == validate_model_id(model_id, provider) IN
        fnOut' = [done |-> TRUE, ok |-> r.ok, reason |-> r.reason, text |-> <<>>]
    /\ UNCHANGED otherThanValidators

CallValidateCommandInjection(input_str) ==
    /\ ~fnOut.done
    /\ fnIn' = [fn |-> "validate_command_injection", arg |-> input_str,
                provider |-> <<>>]
    /\ fnOut' = [done |-> TRUE, ok |-> validate_command_injection(input_str),
                 reason |-> "", text |-> <<>>]
    /\ UNCHANGED otherThanValidators

CallValidatePathTraversal(path) ==
    /\ ~fnOut.done
    /\ fnIn' = [fn |-> "validate_path_traversal", arg |-> path, provider |-> <<>>]
    /\ fnOut' = [done |-> TRUE, ok |-> validate_path_traversal(path),
                 reason |-> "", text |-> <<>>]
    /\ UNCHANGED otherThanValidators

CallSanitizeForFilesystem(name) ==
    /\ ~fnOut.done
    /\ fnIn' = [fn |-> "sanitize_for_filesystem", arg |-> name, provider |-> <<>>]
    /\ fnOut' = [done |-> TRUE, ok |-> TRUE, reason |-> "",
                 text |-> sanitize_for_filesystem(name)]
    /\ UNCHANGED otherThanValidators

FnReturn ==
    /\ fnOut.done
    /\ fnIn' = NoFnIn
    /\ fnOut' = NoFnOut
    /\ UNCHANGED otherThanValidators

NextValidators ==
    \/ /\ ~fnOut.done
       /\ \E id \in ModelIds, provider \in Providers :
            CallValidateModelId(id, provider)
    \/ /\ ~fnOut.done
       /\ \E text \in StringsUpTo(InjectionTextChars, MaxTextLen) :
            CallValidateCommandInjection(text)
    \/ /\ ~fnOut.done
       /\ \E text \in StringsUpTo(TraversalTextChars, MaxTraversalLen) :
            CallValidatePathTraversal(text)
    \/ /\ ~fnOut.done
       /\ \E name \in Names : CallSanitizeForFilesystem(name)
    \/ FnReturn

SpecValidators == Init /\ [][NextValidators]_vars

(***************************************************************************)
(* ModelCacheManager: the LRU index, the usage patterns, the eviction pass *)
(* and clear_cache.  Every public operation runs under _cache_lock, so it  *)
(* is one step.                                                            *)
(***************************************************************************)
\* max_cache_size_gb * (1 - target_free_space_percent), with the default
\* target_free_space_percent of 0.2
target_size_gb == (maxCacheSizeGb * 4) \div 5
\* the grace window of the eviction pass, in seconds
GraceSeconds == 3600
\* the clock of the model advances by one grace window at a time
SecondsPerTick == GraceSeconds
HoursPerDay == 24
DaysPerWeek == 7
\* the sizes (GB) record_access is given
EntrySizes == {200, 300}

RECURSIVE SumSizes(_)
\* sum(entry.size_gb for entry in entries)
SumSizes(entries) ==
    IF entries = <<>> THEN 0
    ELSE Head(entries).size_gb + SumSizes(Tail(entries))

\* the position of model_id in the index, 0 when it is not there
IndexOf(entries, model_id) ==
    IF \E i \in 1..Len(entries) : entries[i].model_id = model_id
    THEN CHOOSE i \in 1..Len(entries) : entries[i].model_id = model_id
    ELSE 0

\* the sequence without its i-th element
RemoveAt(entries, i) ==
    SubSeq(entries, 1, i - 1) \o SubSeq(entries, i + 1, Len(entries))

\* max(histogram) and histogram.index(value): the lowest index holding it
MaxOf(histogram) ==
    CHOOSE v \in {histogram[i] : i \in DOMAIN histogram} :
        \A i \in DOMAIN histogram : histogram[i] <= v
\* mutant: the highest index holding the value
LastIndexOf(histogram, value) ==
    CHOOSE i \in DOMAIN histogram :
        histogram[i] = value /\ \A j \in DOMAIN histogram : j > i => histogram[j] # value
FirstIndexOf(histogram, value) ==
    CHOOSE i \in DOMAIN histogram :
        histogram[i] = value /\ \A j \in DOMAIN histogram : j < i => histogram[j] # value

\* ModelCacheManager._update_usage_pattern: the pattern of the model after
\* one more request at current_hour of current_day.  avg_daily_requests is
\* total_requests / days_active, kept as the pair of the two.
update_usage_pattern(pattern, current_hour, current_day) ==
    LET fresh == IF pattern = NoPattern
                 THEN [hour_histogram |-> [h \in 0..(HoursPerDay - 1) |-> 0],
                       day_histogram |-> [d \in 0..(DaysPerWeek - 1) |-> 0],
                       total_requests |-> 0,
                       days_active |-> 0,
                       peak_hour |-> current_hour,
                       peak_day |-> current_day]
                 ELSE pattern
        hours == [fresh.hour_histogram EXCEPT ![current_hour] = @ + 1]
        days == [fresh.day_histogram EXCEPT ![current_day] = @ + 1]
        active == Cardinality({d \in DOMAIN days : days[d] > 0})
    IN [hour_histogram |-> hours,
        day_histogram |-> days,
        total_requests |-> fresh.total_requests + 1,
        days_active |-> IF active > 1 THEN active ELSE 1,
        peak_hour |-> FirstIndexOf(hours, MaxOf(hours)),
        peak_day |-> FirstIndexOf(days, MaxOf(days))]

\* path=None
NoPath == <<<<"None">>>>
models == <<"m","o","d","e","l","s">>

RECURSIVE SplitFrom(_, _, _)
\* the "/"-separated parts of text, part being the one being read
SplitFrom(parts, part, text) ==
    IF text = <<>> THEN Append(parts, part)
    ELSE IF Head(text) = "/" THEN SplitFrom(Append(parts, part), <<>>, Tail(text))
    ELSE SplitFrom(parts, Append(part, Head(text)), Tail(text))

\* the components pathlib makes of a string: empty parts and "." are dropped
Components(text) ==
    SelectSeq(SplitFrom(<<>>, <<>>, text), LAMBDA c : c # <<>> /\ c # <<".">>)

\* self.nvme_path / "models" / model_id: an absolute right operand replaces
\* what is on its left
default_path(model_id) ==
    IF model_id # <<>> /\ Head(model_id) = "/" THEN Components(model_id)
    ELSE nvme_path \o <<models>> \o Components(model_id)

\* CacheEntry(model_id=..., access_count=1, ..., metadata={})
NewEntry(model_id, provider, size_gb, load_time_ms, path, t) ==
    [model_id |-> model_id,
     provider |-> provider,
     size_gb |-> size_gb,
     last_accessed |-> t,
     access_count |-> 1,
     load_time_ms |-> load_time_ms,
     path |-> IF path = NoPath THEN default_path(model_id) ELSE path,
     metadata |-> <<>>]

\* mutant: the entry is updated where it stands in the index
record_access_in_place(entries, model_id, provider, size_gb, load_time_ms, path, t) ==
    LET i == IndexOf(entries, model_id) IN
        IF i > 0
        THEN [entries EXCEPT ![i] = [@ EXCEPT !.last_accessed = t,
                                              !.access_count = @ + 1]]
        ELSE Append(entries,
                    NewEntry(model_id, provider, size_gb, load_time_ms, path, t))

\* the index after ModelCacheManager.record_access(model_id, provider,
\* size_gb, load_time_ms, path) at time t
record_access(entries, model_id, provider, size_gb, load_time_ms, path, t) ==
    LET i == IndexOf(entries, model_id) IN
        IF i > 0
        THEN Append(RemoveAt(entries, i),
                    [entries[i] EXCEPT !.last_accessed = t,
                                       !.access_count = @ + 1])
        ELSE Append(entries,
                    NewEntry(model_id, provider, size_gb, load_time_ms, path, t))

RECURSIVE can_evict_loop(_, _, _, _, _)
\* the for loop of _can_evict_for_space from position i of the index
can_evict_loop(entries, i, evictable_size, required_gb, current_time) ==
    IF i > Len(entries) THEN FALSE
    ELSE IF current_time - entries[i].last_accessed > GraceSeconds THEN
        IF evictable_size + entries[i].size_gb >= required_gb THEN TRUE
        ELSE can_evict_loop(entries, i + 1, evictable_size + entries[i].size_gb,
                            required_gb, current_time)
    ELSE can_evict_loop(entries, i + 1, evictable_size, required_gb, current_time)

\* ModelCacheManager._can_evict_for_space(required_gb)
can_evict_for_space(entries, required_gb, current_time) ==
    can_evict_loop(entries, 1, 0, required_gb, current_time)

\* ModelCacheManager.should_cache(model_id, size_gb)
should_cache(entries, model_id, size_gb, current_time) ==
    LET current_size_gb == SumSizes(entries) IN
        IF current_size_gb + size_gb > target_size_gb
        THEN can_evict_for_space(entries, size_gb, current_time)
        ELSE TRUE

\* ModelCacheManager._mark_for_deletion: (cache_dir / ".delete_<id>").touch()
\* raises when the id has a "/", as the marker then lies in a directory
\* that does not exist
mark_for_deletion_ok(model_id) == ~Contains(model_id, <<"/">>)

RECURSIVE SortByLastAccessed_newest_first(_)
\* mutant: the most recently accessed entry comes first
SortByLastAccessed_newest_first(entries) ==
    IF entries = <<>> THEN <<>>
    ELSE LET rest == SortByLastAccessed_newest_first(Tail(entries))
             k == Cardinality({i \in 1..Len(rest) :
                        rest[i].last_accessed > Head(entries).last_accessed})
         IN SubSeq(rest, 1, k) \o <<Head(entries)>> \o SubSeq(rest, k + 1, Len(rest))

RECURSIVE SortByLastAccessed(_)
\* sorted(entries, key=last_accessed): stable, ascending
SortByLastAccessed(entries) ==
    IF entries = <<>> THEN <<>>
    ELSE LET rest == SortByLastAccessed(Tail(entries))
             k == Cardinality({i \in 1..Len(rest) :
                        rest[i].last_accessed < Head(entries).last_accessed})
         IN SubSeq(rest, 1, k) \o <<Head(entries)>> \o SubSeq(rest, k + 1, Len(rest))

RECURSIVE SortByAccessCountDesc(_)
\* sorted(entries, key=access_count, reverse=True): stable, descending
SortByAccessCountDesc(entries) ==
    IF entries = <<>> THEN <<>>
    ELSE LET rest == SortByAccessCountDesc(Tail(entries))
             k == Cardinality({i \in 1..Len(rest) :
                        rest[i].access_count > Head(entries).access_count})
         IN SubSeq(rest, 1, k) \o <<Head(entries)>> \o SubSeq(rest, k + 1, Len(rest))

RECURSIVE evict_loop_no_grace(_, _, _, _, _, _)
\* mutant: recently accessed entries are evicted like the others
evict_loop_no_grace(sorted_entries, i, total_size_gb, evicted_size, evicted_models, marked) ==
    IF i > Len(sorted_entries)
            \/ total_size_gb - evicted_size <= target_size_gb THEN
        [evicted_models |-> evicted_models, marked |-> marked, raised |-> FALSE]
    ELSE IF ~mark_for_deletion_ok(sorted_entries[i].model_id) THEN
        [evicted_models |-> evicted_models, marked |-> marked, raised |-> TRUE]
    ELSE
        evict_loop_no_grace(sorted_entries, i + 1, total_size_gb,
                   evicted_size + sorted_entries[i].size_gb,
                   evicted_models \cup {sorted_entries[i].model_id},
                   marked \cup {sorted_entries[i].model_id})

RECURSIVE evict_loop_all_eligible(_, _, _, _, _, _)
\* mutant: the loop does not stop when the target is met
evict_loop_all_eligible(sorted_entries, i, total_size_gb, evicted_size, evicted_models, marked) ==
    IF i > Len(sorted_entries) THEN
        [evicted_models |-> evicted_models, marked |-> marked, raised |-> FALSE]
    ELSE IF now - sorted_entries[i].last_accessed < GraceSeconds THEN
        evict_loop_all_eligible(sorted_entries, i + 1, total_size_gb, evicted_size,
                   evicted_models, marked)
    ELSE IF ~mark_for_deletion_ok(sorted_entries[i].model_id) THEN
        [evicted_models |-> evicted_models, marked |-> marked, raised |-> TRUE]
    ELSE
        evict_loop_all_eligible(sorted_entries, i + 1, total_size_gb,
                   evicted_size + sorted_entries[i].size_gb,
                   evicted_models \cup {sorted_entries[i].model_id},
                   marked \cup {sorted_entries[i].model_id})

RECURSIVE evict_loop(_, _, _, _, _, _)
\* the for loop of _check_and_evict over sorted_entries from position i
evict_loop(sorted_entries, i, total_size_gb, evicted_size, evicted_models, marked) ==
    IF i > Len(sorted_entries)
            \/ total_size_gb - evicted_size <= target_size_gb THEN
        [evicted_models |-> evicted_models, marked |-> marked, raised |-> FALSE]
    ELSE IF now - sorted_entries[i].last_accessed < GraceSeconds THEN
        evict_loop(sorted_entries, i + 1, total_size_gb, evicted_size,
                   evicted_models, marked)
    ELSE IF ~mark_for_deletion_ok(sorted_entries[i].model_id) THEN
        [evicted_models |-> evicted_models, marked |-> marked, raised |-> TRUE]
    ELSE
        evict_loop(sorted_entries, i + 1, total_size_gb,
                   evicted_size + sorted_entries[i].size_gb,
                   evicted_models \cup {sorted_entries[i].model_id},
                   marked \cup {sorted_entries[i].model_id})

\* the entries of the index whose model is not among removed, in order
Without(entries, removed) ==
    SelectSeq(entries, LAMBDA e : e.model_id \notin removed)

RECURSIVE clear_loop(_, _, _, _)
\* the loop of clear_cache over the entries to clear: mark, then delete,
\* one entry after the other
clear_loop(to_clear, i, deleted, marked) ==
    IF i > Len(to_clear) THEN
        [deleted |-> deleted, marked |-> marked, raised |-> FALSE]
    ELSE IF ~mark_for_deletion_ok(to_clear[i].model_id) THEN
        [deleted |-> deleted, marked |-> marked, raised |-> TRUE]
    ELSE clear_loop(to_clear, i + 1, deleted \cup {to_clear[i].model_id},
                    marked \cup {to_clear[i].model_id})

RECURSIVE mark_all(_, _, _)
\* the marking loop of clear_cache(force=True)
mark_all(entries, i, marked) ==
    IF i > Len(entries) THEN [marked |-> marked, raised |-> FALSE]
    ELSE IF ~mark_for_deletion_ok(entries[i].model_id) THEN
        [marked |-> marked, raised |-> TRUE]
    ELSE mark_all(entries, i + 1, marked \cup {entries[i].model_id})

\* str.lower() on model ids
LowerSeq == <<"a","b","c","d","e","f","g","h","i","j","k","l","m",
              "n","o","p","q","r","s","t","u","v","w","x","y","z">>
UpperSeq == <<"A","B","C","D","E","F","G","H","I","J","K","L","M",
              "N","O","P","Q","R","S","T","U","V","W","X","Y","Z">>
str_lower(text) ==
    [i \in 1..Len(text) |->
        IF text[i] \in Uppers
        THEN LowerSeq[CHOOSE k \in 1..Len(UpperSeq) : UpperSeq[k] = text[i]]
        ELSE text[i]]

\* ModelCacheManager.get_model_load_time_estimate(model_id), in ms; entry is
\* self._cache.get(model_id), read after the test that the model is not in
\* self._cache
get_model_load_time_estimate(entries, known_patterns, model_id) ==
    LET i == IndexOf(entries, model_id)
        in_usage_patterns == /\ model_id \in DOMAIN known_patterns
                             /\ known_patterns[model_id] # NoPattern
        lowered == str_lower(model_id)
    IN  IF i > 0 THEN 100
        ELSE IF in_usage_patterns /\ i > 0 /\ entries[i].load_time_ms > 0
            THEN entries[i].load_time_ms
        ELSE IF Contains(lowered, <<"7","0","b">>) THEN 30000
        ELSE IF Contains(lowered, <<"1","3","b">>)
                    \/ Contains(lowered, <<"1","5","b">>) THEN 15000
        ELSE IF Contains(lowered, <<"7","b">>)
                    \/ Contains(lowered, <<"8","b">>) THEN 8000
        ELSE IF Contains(lowered, <<"3","b">>) THEN 4000
        ELSE 10000

\* the provider a model of the cache is recorded with
ProviderOf(model_id) == IF MatchesHF(model_id) THEN huggingface ELSE ollama

\* record_access(model_id, provider, size_gb, load_time_ms, path)
RecordAccess(model_id, provider, size_gb, load_time_ms, path) ==
    /\ patterns[model_id].total_requests < MaxRequests
    /\ cache' = record_access(cache, model_id, provider, size_gb, load_time_ms,
                              path, now)
    /\ patterns' = [patterns EXCEPT ![model_id] =
                        update_usage_pattern(@, hour, day)]
    /\ accesses' = [accesses EXCEPT ![model_id] =
                        IF IndexOf(cache, model_id) > 0 THEN @ + 1 ELSE 1]
    /\ observedLoad' = [observedLoad EXCEPT ![model_id] =
                        IF IndexOf(cache, model_id) > 0 THEN @ ELSE load_time_ms]
    /\ lastOp' = [op |-> "record_access", model_id |-> model_id,
                  raised |-> FALSE, arg |-> path, ret |-> <<>>]
    /\ UNCHANGED <<markers, now, hour, day, maxCacheSizeGb, metadataFile,
                   patternFile, disk,
                  savedIndex, threadPc, cache_lock>>
    /\ UNCHANGED otherThanCache

\* should_cache(model_id, size_gb)
ShouldCache(model_id, size_gb) ==
    /\ lastOp' = [op |-> "should_cache", model_id |-> model_id,
                  raised |-> FALSE, arg |-> size_gb,
                  ret |-> should_cache(cache, model_id, size_gb, now)]
    /\ UNCHANGED <<cache, patterns, markers, now, hour, day, accesses,
                   maxCacheSizeGb, observedLoad, metadataFile, patternFile, disk,
                  savedIndex, threadPc, cache_lock>>
    /\ UNCHANGED otherThanCache

\* get_model_load_time_estimate(model_id); it does not take _cache_lock
GetLoadTimeEstimate(model_id) ==
    /\ lastOp' = [op |-> "get_model_load_time_estimate", model_id |-> model_id,
                  raised |-> FALSE, arg |-> <<>>,
                  ret |-> get_model_load_time_estimate(cache, patterns, model_id)]
    /\ UNCHANGED <<cache, patterns, markers, now, hour, day, accesses,
                   maxCacheSizeGb, observedLoad, metadataFile, patternFile, disk,
                  savedIndex, threadPc, cache_lock>>
    /\ UNCHANGED otherThanCache

\* mutant: the pass also forgets the usage pattern of what it evicts
CheckAndEvict_drops_patterns ==
    /\ LET total_size_gb == SumSizes(cache) IN
        IF total_size_gb > target_size_gb THEN
            LET r == evict_loop(SortByLastAccessed(cache), 1, total_size_gb,
                                0, {}, {}) IN
                /\ markers' = markers \cup r.marked
                /\ cache' = IF r.raised THEN cache
                            ELSE Without(cache, r.evicted_models)
                /\ patterns' = [m \in DOMAIN patterns |->
                                    IF ~r.raised /\ m \in r.evicted_models
                                    THEN NoPattern ELSE patterns[m]]
                /\ lastOp' = [op |-> "check_and_evict", model_id |-> <<>>,
                              raised |-> r.raised, arg |-> <<>>, ret |-> <<>>]
        ELSE
            /\ lastOp' = [op |-> "check_and_evict", model_id |-> <<>>,
                          raised |-> FALSE, arg |-> <<>>, ret |-> <<>>]
            /\ UNCHANGED <<cache, markers, patterns>>
    /\ UNCHANGED <<now, hour, day, accesses, maxCacheSizeGb,
                   observedLoad, metadataFile, patternFile, disk,
                  savedIndex, threadPc, cache_lock>>
    /\ UNCHANGED otherThanCache

\* one cycle of _eviction_monitor: _check_and_evict(), an exception of which
\* the monitor logs
CheckAndEvict ==
    /\ LET total_size_gb == SumSizes(cache) IN
        IF total_size_gb > target_size_gb THEN
            LET r == evict_loop(SortByLastAccessed(cache), 1, total_size_gb,
                                0, {}, {}) IN
                /\ markers' = markers \cup r.marked
                /\ cache' = IF r.raised THEN cache
                            ELSE Without(cache, r.evicted_models)
                /\ lastOp' = [op |-> "check_and_evict", model_id |-> <<>>,
                              raised |-> r.raised, arg |-> <<>>, ret |-> <<>>]
        ELSE
            /\ lastOp' = [op |-> "check_and_evict", model_id |-> <<>>,
                          raised |-> FALSE, arg |-> <<>>, ret |-> <<>>]
            /\ UNCHANGED <<cache, markers>>
    /\ UNCHANGED <<patterns, now, hour, day, accesses, maxCacheSizeGb,
                   observedLoad, metadataFile, patternFile, disk,
                  savedIndex, threadPc, cache_lock>>
    /\ UNCHANGED otherThanCache

\* clear_cache(force)
ClearCache(force) ==
    /\ IF force THEN
            LET cleared_count == Len(cache)
                cleared_size == SumSizes(cache)
                r == mark_all(cache, 1, {})
            IN  /\ markers' = markers \cup r.marked
                /\ cache' = IF r.raised THEN cache ELSE <<>>
                /\ patterns' = IF r.raised THEN patterns
                               ELSE [m \in DOMAIN patterns |-> NoPattern]
                /\ lastOp' = [op |-> "clear_cache", model_id |-> <<>>,
                              raised |-> r.raised, arg |-> force,
                              ret |-> IF r.raised THEN <<>>
                                      ELSE [cleared_models |-> cleared_count,
                                            cleared_size_gb |-> cleared_size,
                                            force |-> TRUE]]
       ELSE
            LET sorted_entries == SortByAccessCountDesc(cache)
                fifth == Len(sorted_entries) \div 5
                keep_count == IF fifth > 1 THEN fifth ELSE 1
                to_clear == SubSeq(sorted_entries, keep_count + 1,
                                   Len(sorted_entries))
                cleared_count == Len(to_clear)
                cleared_size == SumSizes(to_clear)
                r == clear_loop(to_clear, 1, {}, {})
            IN  /\ markers' = markers \cup r.marked
                /\ cache' = Without(cache, r.deleted)
                /\ lastOp' = [op |-> "clear_cache", model_id |-> <<>>,
                              raised |-> r.raised, arg |-> force,
                              ret |-> IF r.raised THEN <<>>
                                      ELSE [cleared_models |-> cleared_count,
                                            cleared_size_gb |-> cleared_size,
                                            kept_models |-> keep_count,
                                            force |-> FALSE]]
                /\ UNCHANGED patterns
    /\ UNCHANGED <<now, hour, day, accesses, maxCacheSizeGb, observedLoad,
                   metadataFile, patternFile, disk,
                  savedIndex, threadPc, cache_lock>>
    /\ UNCHANGED otherThanCache

\* an hour passes
Tick ==
    /\ now < MaxTicks * SecondsPerTick
    /\ now' = now + SecondsPerTick
    /\ hour' = (hour + 1) % HoursPerDay
    /\ day' = IF hour = HoursPerDay - 1 THEN (day + 1) % DaysPerWeek ELSE day
    /\ UNCHANGED <<cache, patterns, markers, accesses, lastOp, maxCacheSizeGb,
                   observedLoad, metadataFile, patternFile, disk,
                  savedIndex, threadPc, cache_lock>>
    /\ UNCHANGED otherThanCache

\* the sizes (GB) should_cache is asked about
\* what should_cache is asked about: it does not read the model id
AdmissionModels == {id_hf}
AdmissionSizes == {100, 300}

NextCache ==
    \/ \E m \in CacheModels, size_gb \in EntrySizes :
            RecordAccess(m, ProviderOf(m), size_gb, 0, NoPath)
    \/ \E m \in AdmissionModels, size_gb \in AdmissionSizes :
            ShouldCache(m, size_gb)
    \/ CheckAndEvict
    \/ \E force \in BOOLEAN : ClearCache(force)
    \/ Tick

SpecCache == Init /\ [][NextCache]_vars

(***************************************************************************)
(* The eviction scenario: a manager built with max_cache_size_gb = 10      *)
(* (target 8 GB) that records models of 3 GB each.                         *)
(***************************************************************************)
ScenarioConfig == [max_cache_size_gb |-> 10, size_gb |-> 3]
id_scenario == <<"x">>
ScenarioModels == {id_hf, id_ollama, id_scenario}

ScenarioInit ==
    OtherInit /\ CacheInitFor(ScenarioModels, ScenarioConfig.max_cache_size_gb)

NextScenario ==
    \/ \E m \in ScenarioModels :
            RecordAccess(m, ProviderOf(m), ScenarioConfig.size_gb, 0, NoPath)
    \/ CheckAndEvict
    \/ Tick

SpecScenario == ScenarioInit /\ [][NextScenario]_vars

(***************************************************************************)
(* Load-time estimates: a manager that records two models with and without *)
(* an observed load time, evicts, and is asked for estimates.              *)
(***************************************************************************)
id_13b == <<"m", "-", "1", "3", "b">>
id_q == <<"q">>
EstimateModels == {id_13b, id_q}
\* the ids get_model_load_time_estimate is asked about
EstimateIds ==
    EstimateModels \cup
    {<<"7", "0", "B">>, <<"3", "b", "7", "0", "b">>, <<"8", "B">>, <<"3", "b">>}
\* the load_time_ms record_access is given
LoadTimes == {0, 2500}
EstimateSizes == {300}

EstimateInit == OtherInit /\ CacheInitFor(EstimateModels, max_cache_size_gb)

NextEstimate ==
    \/ \E m \in EstimateModels, size_gb \in EstimateSizes, ms \in LoadTimes :
            RecordAccess(m, ollama, size_gb, ms, NoPath)
    \/ \E m \in EstimateIds : GetLoadTimeEstimate(m)
    \/ CheckAndEvict
    \/ Tick

SpecEstimate == EstimateInit /\ [][NextEstimate]_vars

(***************************************************************************)
(* Persistence: the metadata persister writes the index and the patterns   *)
(* to <cache_dir>, and a manager constructed on the same directory reads   *)
(* them back.  The process ends without writing anything: the background   *)
(* threads are daemon threads and no exit hook is registered.              *)
(***************************************************************************)
\* the fields of CacheEntry, in the order of the dataclass
EntryFields == <<"model_id", "provider", "size_gb", "last_accessed",
                 "access_count", "load_time_ms", "path", "metadata">>

\* asdict(entry) as json.dump writes it: one member per field, the path as
\* the string record_access stored
asdict(entry) ==
    [i \in 1..Len(EntryFields) |->
        <<EntryFields[i],
          IF EntryFields[i] = "path" THEN PathStr(entry.path)
          ELSE entry[EntryFields[i]]>>]

\* the value of member key of a JSON object
Member(object, key) ==
    object[CHOOSE i \in 1..Len(object) : object[i][1] = key][2]

\* CacheEntry(**entry_data)
CacheEntryOf(entry_data) ==
    [model_id |-> Member(entry_data, "model_id"),
     provider |-> Member(entry_data, "provider"),
     size_gb |-> Member(entry_data, "size_gb"),
     last_accessed |-> Member(entry_data, "last_accessed"),
     access_count |-> Member(entry_data, "access_count"),
     load_time_ms |-> Member(entry_data, "load_time_ms"),
     path |-> Components(Member(entry_data, "path")),
     metadata |-> Member(entry_data, "metadata")]

\* _save_cache_metadata: the document written to cache_metadata.json
save_cache_metadata(entries, t) ==
    [entries |-> [i \in 1..Len(entries) |-> asdict(entries[i])],
     timestamp |-> t]

\* Path(entry.path).exists()
PathExists(path, existing) == Resolve(path) \in existing

\* mutant: every entry of the file is loaded
load_cache_metadata_unchecked(file, existing) ==
    IF file \in {NoFile, CorruptFile} THEN <<>>
    ELSE [i \in 1..Len(file.entries) |-> CacheEntryOf(file.entries[i])]

\* _load_cache_metadata: the entries of the file whose path exists, in the
\* order of the file
load_cache_metadata(file, existing) ==
    IF file \in {NoFile, CorruptFile} THEN <<>>
    ELSE SelectSeq([i \in 1..Len(file.entries) |-> CacheEntryOf(file.entries[i])],
                   LAMBDA entry : PathExists(entry.path, existing))

\* _save_usage_patterns: pickle.dump(self._usage_patterns, f)
save_usage_patterns(known_patterns) ==
    [pickled |-> {<<m, known_patterns[m]>> :
                    m \in {k \in DOMAIN known_patterns :
                                known_patterns[k] # NoPattern}}]

\* _load_usage_patterns, over the ids this model tracks
load_usage_patterns(file, ids) ==
    [m \in ids |->
        IF file \notin {NoFile, CorruptFile}
                /\ \E pair \in file.pickled : pair[1] = m
        THEN (CHOOSE pair \in file.pickled : pair[1] = m)[2]
        ELSE NoPattern]

\* one cycle of _metadata_persister: both files are written
Persist ==
    /\ metadataFile' = save_cache_metadata(cache, now)
    /\ patternFile' = save_usage_patterns(patterns)
    /\ savedIndex' = cache
    /\ lastOp' = [op |-> "persist", model_id |-> <<>>, raised |-> FALSE,
                  arg |-> <<>>, ret |-> <<>>]
    /\ UNCHANGED <<cache, patterns, markers, now, hour, day, accesses,
                   maxCacheSizeGb, observedLoad, disk, threadPc, cache_lock>>
    /\ UNCHANGED otherThanCache

\* the process ends and ModelCacheManager.__init__ runs on the same cache_dir
Restart ==
    /\ cache' = load_cache_metadata(metadataFile, disk)
    /\ patterns' = load_usage_patterns(patternFile, DOMAIN patterns)
    /\ accesses' = [m \in DOMAIN accesses |->
                        IF IndexOf(cache', m) > 0
                        THEN cache'[IndexOf(cache', m)].access_count ELSE 0]
    /\ observedLoad' = [m \in DOMAIN observedLoad |->
                        IF IndexOf(cache', m) > 0
                        THEN cache'[IndexOf(cache', m)].load_time_ms ELSE 0]
    /\ lastOp' = [op |-> "restart", model_id |-> <<>>, raised |-> FALSE,
                  arg |-> <<>>, ret |-> <<>>]
    /\ threadPc' = ThreadsStarted
    /\ cache_lock' = Unlocked
    /\ UNCHANGED <<markers, now, hour, day, maxCacheSizeGb, metadataFile,
                   patternFile, disk, savedIndex>>
    /\ UNCHANGED otherThanCache

\* a model's files are written at path by whoever loads the model
Materialize(path) ==
    /\ path \notin disk
    /\ disk' = disk \cup {path}
    /\ UNCHANGED <<cache, patterns, markers, now, hour, day, accesses, lastOp,
                   maxCacheSizeGb, observedLoad, metadataFile, patternFile,
                   savedIndex, threadPc, cache_lock>>
    /\ UNCHANGED otherThanCache

\* a model's files are removed from path
Vanish(path) ==
    /\ path \in disk
    /\ disk' = disk \ {path}
    /\ UNCHANGED <<cache, patterns, markers, now, hour, day, accesses, lastOp,
                   maxCacheSizeGb, observedLoad, metadataFile, patternFile,
                   savedIndex, threadPc, cache_lock>>
    /\ UNCHANGED otherThanCache

id_escape == <<".", ".", "/", ".", ".", "/", "x">>
PersistModels == {id_ollama, id_escape}
\* the path argument of record_access: None, or where the caller put the model
PersistPaths == {NoPath, target_sibling}
\* the places where model files come and go
ModelPlaces == {Resolve(default_path(id_ollama)), target_sibling}
PersistSizes == {200}

PersistInit == OtherInit /\ CacheInitFor(PersistModels, max_cache_size_gb)

NextPersist ==
    \/ \E m \in PersistModels, size_gb \in PersistSizes, path \in PersistPaths :
            RecordAccess(m, ProviderOf(m), size_gb, 0, path)
    \/ Persist
    \/ Restart
    \/ \E path \in ModelPlaces : Materialize(path)
    \/ \E path \in ModelPlaces : Vanish(path)

SpecPersist == PersistInit /\ [][NextPersist]_vars

(***************************************************************************)
(* Predictive loading: a manager built over the usage patterns an earlier  *)
(* process saved, whose preloader runs its cycles while models are         *)
(* accessed and the clock advances.                                        *)
(***************************************************************************)
\* mutant: a day at exactly half the average counts as busy
check_predictive_loading_at_half(known_patterns, entries, current_hour, current_day) ==
    {model_id \in {m \in DOMAIN known_patterns : known_patterns[m] # NoPattern} :
        /\ IndexOf(entries, model_id) = 0
        /\ known_patterns[model_id].peak_hour = (current_hour + 1) % HoursPerDay
        /\ known_patterns[model_id].day_histogram[current_day] * 2
                * known_patterns[model_id].days_active
            >= known_patterns[model_id].total_requests}

\* _check_predictive_loading: the models _trigger_model_load is called for
check_predictive_loading(known_patterns, entries, current_hour, current_day) ==
    {model_id \in {m \in DOMAIN known_patterns : known_patterns[m] # NoPattern} :
        /\ IndexOf(entries, model_id) = 0
        /\ known_patterns[model_id].peak_hour = (current_hour + 1) % HoursPerDay
        \* day_histogram[current_day] > avg_daily_requests * 0.5
        /\ known_patterns[model_id].day_histogram[current_day] * 2
                * known_patterns[model_id].days_active
            > known_patterns[model_id].total_requests}

\* one cycle of _predictive_preloader
PredictivePass ==
    /\ lastOp' = [op |-> "check_predictive_loading", model_id |-> <<>>,
                  raised |-> FALSE, arg |-> <<>>,
                  ret |-> check_predictive_loading(patterns, cache, hour, day)]
    /\ UNCHANGED <<cache, patterns, markers, now, hour, day, accesses,
                   maxCacheSizeGb, observedLoad, metadataFile, patternFile,
                   disk, savedIndex, threadPc, cache_lock>>
    /\ UNCHANGED otherThanCache

RECURSIVE PatternOf(_)
\* the pattern _update_usage_pattern has built after requests at the given
\* <<hour, weekday>> pairs
PatternOf(requests) ==
    IF requests = <<>> THEN NoPattern
    ELSE LET last == requests[Len(requests)] IN
        update_usage_pattern(PatternOf(SubSeq(requests, 1, Len(requests) - 1)),
                             last[1], last[2])

\* the requests the earlier process saw for a model
RequestHistories ==
    {<<>>,
     <<<<0, 0>>>>,
     <<<<0, 6>>>>,
     <<<<1, 0>>>>,
     <<<<1, 6>>, <<1, 0>>>>,
     <<<<1, 6>>, <<1, 6>>, <<1, 6>>, <<1, 0>>>>}
PredictSizes == {200}

PredictInit ==
    /\ OtherInit
    /\ cache = <<>>
    /\ patterns \in [CacheModels -> {PatternOf(h) : h \in RequestHistories}]
    /\ markers = {}
    /\ now = 0
    /\ hour \in StartHours
    /\ day \in StartDays
    /\ accesses = [m \in CacheModels |-> 0]
    /\ lastOp = NoOp
    /\ maxCacheSizeGb = max_cache_size_gb
    /\ observedLoad = [m \in CacheModels |-> 0]
    /\ metadataFile = NoFile
    /\ patternFile = save_usage_patterns(patterns)
    /\ disk = {}
    /\ savedIndex = <<>>
    /\ threadPc = ThreadsStarted
    /\ cache_lock = Unlocked

NextPredict ==
    \/ \E m \in CacheModels, size_gb \in PredictSizes :
            RecordAccess(m, ProviderOf(m), size_gb, 0, NoPath)
    \/ PredictivePass
    \/ Tick

SpecPredict == PredictInit /\ [][NextPredict]_vars

(***************************************************************************)
(* The eviction monitor left alone: every access is made in the first hour *)
(* of the manager, then time passes and the monitor runs its cycles.  The  *)
(* thread is never starved, and a cycle that raises is followed by another *)
(* cycle.                                                                  *)
(***************************************************************************)
NextEvictionLive ==
    \/ \E m \in CacheModels, size_gb \in EntrySizes :
            now = 0 /\ RecordAccess(m, ProviderOf(m), size_gb, 0, NoPath)
    \/ CheckAndEvict
    \/ Tick

SpecEvictionLive ==
    Init /\ [][NextEvictionLive]_vars /\ WF_vars(CheckAndEvict) /\ WF_vars(Tick)

(***************************************************************************)
(* Admission: a caller asks should_cache and, when the answer is yes,      *)
(* records the model with the size it asked about.                         *)
(***************************************************************************)
\* record_access(model_id, provider, size_gb) by the caller that has just been
\* told should_cache(model_id, size_gb)
Admit(model_id, size_gb) ==
    /\ lastOp.op = "should_cache" /\ lastOp.ret = TRUE
    /\ lastOp.model_id = model_id /\ lastOp.arg = size_gb
    /\ patterns[model_id].total_requests < MaxRequests
    /\ cache' = record_access(cache, model_id, ProviderOf(model_id), size_gb, 0,
                              NoPath, now)
    /\ patterns' = [patterns EXCEPT ![model_id] =
                        update_usage_pattern(@, hour, day)]
    /\ accesses' = [accesses EXCEPT ![model_id] =
                        IF IndexOf(cache, model_id) > 0 THEN @ + 1 ELSE 1]
    /\ lastOp' = [op |-> "admit", model_id |-> model_id, raised |-> FALSE,
                  arg |-> size_gb, ret |-> <<>>]
    /\ UNCHANGED <<markers, now, hour, day, maxCacheSizeGb, observedLoad,
                   metadataFile, patternFile, disk, savedIndex, threadPc, cache_lock>>
    /\ UNCHANGED otherThanCache

NextAdmission ==
    \/ \E m \in CacheModels, size_gb \in EntrySizes :
            RecordAccess(m, ProviderOf(m), size_gb, 0, NoPath)
    \/ \E m \in CacheModels, size_gb \in EntrySizes : ShouldCache(m, size_gb)
    \/ \E m \in CacheModels, size_gb \in EntrySizes : Admit(m, size_gb)
    \/ CheckAndEvict
    \/ Tick

SpecAdmission == Init /\ [][NextAdmission]_vars

(***************************************************************************)
(* Persistence with crashes: one cycle of the persister is two writes,     *)
(* each of which may fail after it has truncated its file, and the process *)
(* may end between any two steps.                                          *)
(***************************************************************************)
\* _save_cache_metadata in a cycle of _metadata_persister; the exception of
\* a failed write is caught inside it
SaveCacheMetadata(write_ok) ==
    /\ threadPc["persistence"].at = "idle"
    \* "with self._cache_lock:" around the copy of the entries
    /\ cache_lock = Unlocked
    /\ metadataFile' = IF write_ok THEN save_cache_metadata(cache, now)
                       ELSE CorruptFile
    /\ savedIndex' = IF write_ok THEN cache ELSE <<>>
    /\ threadPc' = [threadPc EXCEPT !["persistence"].at = "save_usage_patterns"]
    /\ lastOp' = [op |-> "save_cache_metadata", model_id |-> <<>>,
                  raised |-> FALSE, arg |-> write_ok, ret |-> <<>>]
    /\ UNCHANGED <<cache, patterns, markers, now, hour, day, accesses,
                   maxCacheSizeGb, observedLoad, patternFile, disk, cache_lock>>
    /\ UNCHANGED otherThanCache

\* _save_usage_patterns, which follows it in the cycle
SaveUsagePatterns(write_ok) ==
    /\ threadPc["persistence"].at = "save_usage_patterns"
    /\ patternFile' = IF write_ok THEN save_usage_patterns(patterns)
                      ELSE CorruptFile
    /\ threadPc' = [threadPc EXCEPT !["persistence"].at = "idle"]
    /\ lastOp' = [op |-> "save_usage_patterns", model_id |-> <<>>,
                  raised |-> FALSE, arg |-> write_ok, ret |-> <<>>]
    /\ UNCHANGED <<cache, patterns, markers, now, hour, day, accesses,
                   maxCacheSizeGb, observedLoad, metadataFile, disk,
                   savedIndex, cache_lock>>
    /\ UNCHANGED otherThanCache

CrashModels == {id_ollama}
CrashSizes == {200}
CrashPlaces == {Resolve(default_path(id_ollama))}

CrashInit == OtherInit /\ CacheInitFor(CrashModels, max_cache_size_gb)

\* the entry of the model counts fewer than MaxRequests accesses
FewAccesses(model_id) ==
    \A i \in 1..Len(cache) :
        cache[i].model_id = model_id => cache[i].access_count < MaxRequests

NextCrash ==
    \/ \E m \in CrashModels, size_gb \in CrashSizes :
            FewAccesses(m) /\ RecordAccess(m, ProviderOf(m), size_gb, 0, NoPath)
    \/ \E write_ok \in BOOLEAN : SaveCacheMetadata(write_ok)
    \/ \E write_ok \in BOOLEAN : SaveUsagePatterns(write_ok)
    \/ Restart
    \/ \E path \in CrashPlaces : Materialize(path)
    \/ \E path \in CrashPlaces : Vanish(path)

SpecCrash == CrashInit /\ [][NextCrash]_vars

(***************************************************************************)
(* Cost tracking: callers in track_cost for one department whose budget is *)
(* a hard limit.  Amounts are integers, in 1e-4 USD; token counts are in   *)
(* thousands.                                                              *)
(***************************************************************************)
\* the token counts of a call, in thousands
TokenCounts == {0, 1}

\* CostTracker._check_budget(department, additional_cost)
check_budget(b, additional_cost) ==
    LET projected_spend == b.current_spend_usd + additional_cost IN
        IF b.is_hard_limit /\ projected_spend > b.monthly_limit_usd
        THEN [blocked |-> TRUE, has_budget |-> FALSE,
              current_spend |-> b.current_spend_usd]
        ELSE [blocked |-> FALSE,
              has_budget |-> projected_spend <= b.monthly_limit_usd,
              current_spend |-> b.current_spend_usd]

\* track_cost up to "Check budget before tracking": the cost of the call
TrackCostBegin(c, prompt_tokens, completion_tokens) ==
    /\ trackCall[c].at = "idle"
    /\ prompt_tokens + completion_tokens > 0
    /\ trackCall' = [trackCall EXCEPT ![c] =
            [at |-> "check_budget",
             cost_usd |-> (prompt_tokens + completion_tokens) * DefaultPricePer1k,
             ret |-> <<>>]]
    /\ UNCHANGED <<budget, costs>>
    /\ UNCHANGED otherThanCost

\* budget_status = self._check_budget(department, cost_usd), outside the
\* lock; a blocked call goes on to return
CheckBudget(c) ==
    /\ trackCall[c].at = "check_budget"
    /\ LET budget_status == check_budget(budget, trackCall[c].cost_usd) IN
        trackCall' = [trackCall EXCEPT
            ![c].at = IF budget_status.blocked THEN "return" ELSE "track",
            ![c].ret = IF budget_status.blocked THEN "blocked" ELSE <<>>]
    /\ UNCHANGED <<budget, costs>>
    /\ UNCHANGED otherThanCost

\* "with self._lock:" the entry is appended and the spend raised
Track(c) ==
    /\ trackCall[c].at = "track"
    /\ costs' = Append(costs, trackCall[c].cost_usd)
    /\ budget' = [budget EXCEPT !.current_spend_usd = @ + trackCall[c].cost_usd]
    /\ trackCall' = [trackCall EXCEPT ![c].at = "return", ![c].ret = "tracked"]
    /\ UNCHANGED otherThanCost

\* track_cost returns its result
TrackCostReturn(c) ==
    /\ trackCall[c].at = "return"
    /\ trackCall' = [trackCall EXCEPT ![c] = NoTrack]
    /\ UNCHANGED <<budget, costs>>
    /\ UNCHANGED otherThanCost

NextBudget ==
    \E c \in Callers :
        \/ \E prompt_tokens \in TokenCounts, completion_tokens \in TokenCounts :
                TrackCostBegin(c, prompt_tokens, completion_tokens)
        \/ CheckBudget(c)
        \/ Track(c)
        \/ TrackCostReturn(c)

SpecBudget == Init /\ [][NextBudget]_vars

(***************************************************************************)
(* The threads of one manager: the three background loops and a caller of  *)
(* record_access, each taken statement by statement where it matters:      *)
(* taking and releasing _cache_lock, touching the filesystem, reading and  *)
(* changing the pattern table.                                             *)
(***************************************************************************)
ThreadConfig == [max_cache_size_gb |-> 300, size_gb |-> 300]
ThreadModels == {id_hf}

At(t) == threadPc[t].at

\* what _check_and_evict does with the index as it is now
EvictionOutcome ==
    evict_loop(SortByLastAccessed(cache), 1, SumSizes(cache), 0, {}, {})

\* _eviction_monitor wakes up and _check_and_evict takes the lock
EvictionAcquire ==
    /\ At("eviction") = "idle"
    /\ cache_lock = Unlocked
    /\ cache_lock' = "eviction"
    /\ threadPc' = [threadPc EXCEPT !["eviction"].at = "scan"]
    /\ UNCHANGED <<cache, patterns, markers, now, hour, day, accesses, lastOp,
                   maxCacheSizeGb, observedLoad, metadataFile, patternFile,
                   disk, savedIndex>>
    /\ UNCHANGED otherThanCache

\* holding the lock, the pass comes to its first _mark_for_deletion, or
\* finds nothing to evict and leaves the lock
EvictionScan ==
    /\ At("eviction") = "scan"
    /\ IF SumSizes(cache) > target_size_gb
            /\ (EvictionOutcome.raised \/ EvictionOutcome.marked # {})
       THEN /\ threadPc' = [threadPc EXCEPT !["eviction"].at = "touch"]
            /\ UNCHANGED <<cache_lock, lastOp>>
       ELSE /\ threadPc' = [threadPc EXCEPT !["eviction"].at = "idle"]
            /\ cache_lock' = Unlocked
            /\ lastOp' = [op |-> "check_and_evict", model_id |-> <<>>,
                          raised |-> FALSE, arg |-> <<>>, ret |-> <<>>]
    /\ UNCHANGED <<cache, patterns, markers, now, hour, day, accesses,
                   maxCacheSizeGb, observedLoad, metadataFile, patternFile,
                   disk, savedIndex>>
    /\ UNCHANGED otherThanCache

\* mutant: an exception ends the eviction thread
EvictionFinish_dies ==
    /\ At("eviction") = "touch"
    /\ markers' = markers \cup EvictionOutcome.marked
    /\ cache' = IF EvictionOutcome.raised THEN cache
                ELSE Without(cache, EvictionOutcome.evicted_models)
    /\ threadPc' = [threadPc EXCEPT !["eviction"].at =
                        IF EvictionOutcome.raised THEN "dead" ELSE "idle"]
    /\ cache_lock' = Unlocked
    /\ lastOp' = [op |-> "check_and_evict", model_id |-> <<>>,
                  raised |-> EvictionOutcome.raised, arg |-> <<>>, ret |-> <<>>]
    /\ UNCHANGED <<patterns, now, hour, day, accesses, maxCacheSizeGb,
                   observedLoad, metadataFile, patternFile, disk, savedIndex>>
    /\ UNCHANGED otherThanCache

\* the markers are touched and, unless a touch raised, the entries deleted;
\* the with statement releases the lock, and an exception is caught by
\* _eviction_monitor, which sleeps again
EvictionFinish ==
    /\ At("eviction") = "touch"
    /\ markers' = markers \cup EvictionOutcome.marked
    /\ cache' = IF EvictionOutcome.raised THEN cache
                ELSE Without(cache, EvictionOutcome.evicted_models)
    /\ threadPc' = [threadPc EXCEPT !["eviction"].at = "idle"]
    /\ cache_lock' = Unlocked
    /\ lastOp' = [op |-> "check_and_evict", model_id |-> <<>>,
                  raised |-> EvictionOutcome.raised, arg |-> <<>>, ret |-> <<>>]
    /\ UNCHANGED <<patterns, now, hour, day, accesses, maxCacheSizeGb,
                   observedLoad, metadataFile, patternFile, disk, savedIndex>>
    /\ UNCHANGED otherThanCache

\* _predictive_preloader wakes up and _check_predictive_loading starts its
\* loop over self._usage_patterns.items(); it takes no lock
PredictionStart ==
    /\ At("prediction") = "idle"
    /\ threadPc' = [threadPc EXCEPT !["prediction"].at = "iterate"]
    /\ UNCHANGED <<cache, patterns, markers, now, hour, day, accesses, lastOp,
                   maxCacheSizeGb, observedLoad, metadataFile, patternFile,
                   disk, savedIndex, cache_lock>>
    /\ UNCHANGED otherThanCache

\* the loop ends: with RuntimeError when a pattern was inserted meanwhile,
\* which _predictive_preloader catches
PredictionFinish ==
    /\ At("prediction") \in {"iterate", "iterate_resized"}
    /\ threadPc' = [threadPc EXCEPT !["prediction"].at = "idle"]
    /\ lastOp' = [op |-> "check_predictive_loading", model_id |-> <<>>,
                  raised |-> At("prediction") = "iterate_resized",
                  arg |-> <<>>,
                  ret |-> IF At("prediction") = "iterate_resized" THEN {}
                          ELSE check_predictive_loading(patterns, cache, hour, day)]
    /\ UNCHANGED <<cache, patterns, markers, now, hour, day, accesses,
                   maxCacheSizeGb, observedLoad, metadataFile, patternFile,
                   disk, savedIndex, cache_lock>>
    /\ UNCHANGED otherThanCache

\* record_access(model_id, ...) takes the lock
RecordAccessEnter(model_id) ==
    /\ At("caller") = "idle"
    /\ patterns[model_id].total_requests < MaxRequests
    /\ cache_lock = Unlocked
    /\ cache_lock' = "caller"
    /\ threadPc' = [threadPc EXCEPT !["caller"] =
                        [at |-> "update_entry", model_id |-> model_id]]
    /\ UNCHANGED <<cache, patterns, markers, now, hour, day, accesses, lastOp,
                   maxCacheSizeGb, observedLoad, metadataFile, patternFile,
                   disk, savedIndex>>
    /\ UNCHANGED otherThanCache

\* the entry is created or refreshed; _update_usage_pattern is entered
RecordAccessEntry ==
    /\ At("caller") = "update_entry"
    /\ LET model_id == threadPc["caller"].model_id IN
        /\ cache' = record_access(cache, model_id, ProviderOf(model_id),
                                  ThreadConfig.size_gb, 0, NoPath, now)
        /\ accesses' = [accesses EXCEPT ![model_id] =
                            IF IndexOf(cache, model_id) > 0 THEN @ + 1 ELSE 1]
        /\ lastOp' = [op |-> "record_access", model_id |-> model_id,
                      raised |-> FALSE, arg |-> NoPath, ret |-> <<>>]
    /\ threadPc' = [threadPc EXCEPT !["caller"].at = "update_pattern"]
    /\ UNCHANGED <<patterns, markers, now, hour, day, maxCacheSizeGb,
                   observedLoad, metadataFile, patternFile, disk, savedIndex,
                   cache_lock>>
    /\ UNCHANGED otherThanCache

\* _update_usage_pattern has changed the table, record_access returns and
\* releases the lock; a loop over the table notices an inserted pattern
RecordAccessPattern ==
    /\ At("caller") = "update_pattern"
    /\ LET model_id == threadPc["caller"].model_id IN
        /\ patterns' = [patterns EXCEPT ![model_id] =
                            update_usage_pattern(@, hour, day)]
        /\ threadPc' = [threadPc EXCEPT
                !["caller"] = [at |-> "idle", model_id |-> <<>>],
                !["prediction"].at =
                    IF @ = "iterate" /\ patterns[model_id] = NoPattern
                    THEN "iterate_resized" ELSE @]
    /\ cache_lock' = Unlocked
    /\ UNCHANGED <<cache, markers, now, hour, day, accesses, lastOp,
                   maxCacheSizeGb, observedLoad, metadataFile, patternFile,
                   disk, savedIndex>>
    /\ UNCHANGED otherThanCache

ThreadsInit == OtherInit /\ CacheInitFor(ThreadModels, ThreadConfig.max_cache_size_gb)

NextThreads ==
    \/ EvictionAcquire
    \/ EvictionScan
    \/ EvictionFinish
    \/ PredictionStart
    \/ PredictionFinish
    \/ \E write_ok \in BOOLEAN : SaveCacheMetadata(write_ok)
    \/ \E write_ok \in BOOLEAN : SaveUsagePatterns(write_ok)
    \/ \E m \in ThreadModels : RecordAccessEnter(m)
    \/ RecordAccessEntry
    \/ RecordAccessPattern
    \* the threads are followed over the first hour of the manager
    \/ now = 0 /\ Tick

SpecThreads == ThreadsInit /\ [][NextThreads]_vars

\* no thread is starved, and a thread that asks for the lock again and again
\* gets it
SpecThreadsLive ==
    /\ SpecThreads
    /\ SF_vars(EvictionAcquire)
    /\ WF_vars(EvictionScan)
    /\ WF_vars(EvictionFinish)
    /\ WF_vars(PredictionStart)
    /\ WF_vars(PredictionFinish)
    /\ SF_vars(\E write_ok \in BOOLEAN : SaveCacheMetadata(write_ok))
    /\ WF_vars(\E write_ok \in BOOLEAN : SaveUsagePatterns(write_ok))
    /\ WF_vars(RecordAccessEntry)
    /\ WF_vars(RecordAccessPattern)

(***************************************************************************)
(* Properties.                                                             *)
(***************************************************************************)
\* past lock acquisition and not yet past lock release
InFlightPcs == {"get_handler", "check_space", "mkdtemp", "fetch", "validate",
                "backup", "move", "cleanup", "finally"}
InFlight(p) == pc[p] \in InFlightPcs

\* component-wise: path is base or a descendant of base
IsUnder(path, base) == StartsWith(path, base)

\* a directory with at least one regular file and nonzero total size, or a
\* single file of nonzero length
IsValidArtifact(art) ==
    \/ art.shape = "dir" /\ art.files >= 1 /\ art.size > 0
    \/ art.shape = "file" /\ art.size > 0

\* C1: in every reachable state at most one download_atomic call is past
\* lock acquisition and not yet past lock release.
C1_AtMostOneInFlight ==
    Cardinality({p \in Callers : InFlight(p)}) <= 1

\* a caller is fetching while another caller is about to ask for the lock
C1_Witness ==
    \E p, q \in Callers : p # q /\ pc[p] = "fetch" /\ pc[q] = "acquire"

\* C2: a caller that asks for the lock while another holds it never waits:
\* its step is always possible and ends the call with LockContention, with no
\* staging directory and the lock untouched; a caller that asks while the
\* lock is free gets it and goes on.
C2_ContentionFailsFast ==
    /\ [](\A p \in Callers : pc[p] = "acquire" => ENABLED AcquireLock(p))
    /\ [][\A p \in Callers :
            (pc[p] = "acquire" /\ pc'[p] # "acquire") =>
                IF lockHolders # {}
                THEN /\ pc'[p] = "done"
                     /\ result'[p] = "LockContention"
                     /\ staging'[p] = NoStaging
                     /\ acquired'[p] = 0
                     /\ lockHolders' = lockHolders
                ELSE /\ pc'[p] = "get_handler"
                     /\ lockHolders' = {p}]_vars

\* a call failed with LockContention while a call for a different model is
\* in flight
C2_Witness ==
    \E p, q \in Callers :
        /\ pc[p] = "done" /\ result[p] = "LockContention"
        /\ InFlight(q)
        /\ call[p].model_id # call[q].model_id

PreLockResults == {"InvalidIdentifier", "PathBoundaryViolation", "LockContention"}
PostLockResults == {"ok", "UnknownProvider", "InsufficientSpace", "FetchFailed",
                    "ArtifactValidationFailed", "PlacementFailed"}

\* C3: a call that acquired the lock releases it exactly once before it
\* returns or raises, on every exit path; a call that did not acquire it
\* never releases.
C3_LockReleasedExactlyOnce ==
    \A p \in Callers :
        /\ acquired[p] <= 1
        /\ released[p] <= acquired[p]
        /\ (p \in lockHolders) = (acquired[p] = 1 /\ released[p] = 0)
        /\ pc[p] # "done" => released[p] = 0
        /\ pc[p] = "done" =>
            /\ result[p] \in PreLockResults \cup PostLockResults
            /\ released[p] = acquired[p]
            /\ result[p] \in PostLockResults => acquired[p] = 1
            /\ result[p] \in PreLockResults => acquired[p] = 0

\* one call raised FetchFailed after its one release, another raised
\* LockContention without any release
C3_Witness ==
    \E p, q \in Callers :
        /\ pc[p] = "done" /\ result[p] = "FetchFailed" /\ released[p] = 1
        /\ pc[q] = "done" /\ result[q] = "LockContention" /\ released[q] = 0

\* C4: when the fetcher fails, the call raises FetchFailed with its staging
\* directory removed, and a target that did not exist before does not exist.
C4_FetchFailureLeavesNothing ==
    \A p \in Callers :
        /\ (pc[p] = "finally" /\ result[p] = "FetchFailed") =>
            /\ fetches[p] = 1
            /\ staging[p] = NoStaging
            /\ pre[p] = "absent" => target[Loc(p)] = "absent"
        /\ (pc[p] = "done" /\ result[p] = "FetchFailed") => staging[p] = NoStaging

\* the fetcher failed on a target that did not exist, and the call is about
\* to release the lock
C4_Witness ==
    \E p \in Callers :
        /\ pc[p] = "finally" /\ result[p] = "FetchFailed"
        /\ pre[p] = "absent" /\ fetches[p] = 1

\* C5: at every state of a call in flight the target holds what it held
\* before the call or, once the call succeeded, the new artifact; a failing
\* call leaves the target as it was.
C5_TargetOldOrNew ==
    \A p \in Callers :
        InFlight(p) =>
            \/ target[Loc(p)] = pre[p]
            \/ pc[p] = "finally" /\ result[p] = "ok" /\ target[Loc(p)] = "artifact"

\* the calls whose model_id validate_model_id rejects
InvalidIdCalls ==
    {c \in Calls : ~validate_model_id(c.model_id, c.provider).ok}

\* C6: a call whose model_id fails validate_model_id raises InvalidIdentifier
\* without side effects: no lock, no handler, no fetch, no staging directory,
\* and its step changes nothing of the lock file and the file system.
C6_InvalidIdNoSideEffects ==
    /\ [](\A p \in Callers :
            call[p] \in InvalidIdCalls =>
                /\ pc[p] = "done"
                /\ result[p] = "InvalidIdentifier"
                /\ acquired[p] = 0 /\ released[p] = 0
                /\ p \notin lockHolders
                /\ handler[p] = "None"
                /\ fetches[p] = 0
                /\ staging[p] = NoStaging)
    /\ [][\A p \in Callers :
            (pc[p] = "idle" /\ result'[p] = "InvalidIdentifier") =>
                UNCHANGED <<lockHolders, staging, target, backups>>]_vars

\* a call with a path-traversal identifier has been rejected
C6_Witness ==
    \E p \in Callers :
        /\ pc[p] = "done" /\ result[p] = "InvalidIdentifier"
        /\ call[p].model_id = id_traversal

\* C7: a call whose resolved target is not under nvme_path never gets past
\* the path check, and no location outside nvme_path ever holds an artifact.
C7_NoPromotionOutsideRoot ==
    /\ \A p \in Callers :
        (call[p] # NoCall /\ ~IsUnder(Loc(p), Resolve(nvme_path))) =>
            pc[p] = "done" /\ result[p] \in {"InvalidIdentifier", "PathBoundaryViolation"}
    /\ \A loc \in Locations :
        target[loc] # "absent" => IsUnder(loc, Resolve(nvme_path))

\* C8: validate_path with a base path returns normally only for a path that
\* resolves to the base or below it, component by component.
C8_ValidatePathUnderBase ==
    (vpOut = "returned" /\ vpIn.base # NoBase) =>
        IsUnder(Resolve(vpIn.path), Resolve(vpIn.base))

\* C9: the call goes past the space check only with free space of at least
\* twice the estimate; otherwise it raises InsufficientSpace with the
\* required (2 x estimate) and available amounts, without fetch or staging
\* directory, and releases the lock.
C9_SpaceCheck ==
    \A p \in Callers :
        /\ pc[p] = "mkdtemp" =>
            /\ space[p].estimate >= 1
            /\ space[p].available >= 2 * space[p].estimate
        /\ (pc[p] = "finally" /\ result[p] = "InsufficientSpace") =>
            /\ space[p].required = 2 * space[p].estimate
            /\ space[p].available < 2 * space[p].estimate
            /\ fetches[p] = 0
            /\ staging[p] = NoStaging
            /\ moved[p] = NoStaging
            /\ target[Loc(p)] = pre[p]
        /\ (pc[p] = "done" /\ result[p] = "InsufficientSpace") =>
            /\ released[p] = 1
            /\ p \notin lockHolders
            /\ staging[p] = NoStaging

\* the disk had one GB less than the two required
C9_Witness ==
    \E p \in Callers :
        /\ pc[p] = "finally" /\ result[p] = "InsufficientSpace"
        /\ space[p].required = 2 /\ space[p].available = 1

\* C10: only a validated artifact is renamed onto the target; after a failed
\* validation or a failed move the staging directory is gone before the
\* error propagates.
C10_PromoteOnlyValidated ==
    \A p \in Callers :
        /\ pc[p] \in {"backup", "move"} => IsValidArtifact(staging[p])
        /\ (pc[p] = "finally" /\ result[p] = "ok") =>
            /\ IsValidArtifact(moved[p])
            /\ target[Loc(p)] = "artifact"
        /\ moved[p] # NoStaging => (pc[p] = "finally" /\ result[p] = "ok")
        /\ (pc[p] \in {"finally", "done"}
              /\ result[p] \in {"ArtifactValidationFailed", "PlacementFailed"}) =>
            staging[p] = NoStaging

\* a staged artifact of zero size was refused and its staging directory
\* removed
C10_Witness ==
    \E p \in Callers :
        /\ pc[p] = "finally" /\ result[p] = "ArtifactValidationFailed"
        /\ staging[p] = NoStaging /\ fetches[p] = 1

\* C11: a prior artifact at the target is never deleted but renamed aside
\* under the backup name before the promotion, a successful call on an
\* existing target leaves the prior content under the backup name and the
\* new artifact at the target, and the presence of a prior artifact never
\* makes a call fail, however often the placement is repeated.
C11_PriorKeptAndRepeatSucceeds ==
    [][/\ \A loc \in Locations :
            /\ (target[loc] # "absent" /\ target'[loc] = "absent") =>
                    backups'[loc] = Append(backups[loc], target[loc])
            /\ Len(backups'[loc]) >= Len(backups[loc])
       /\ \A p \in Callers :
            /\ (pc[p] = "move" /\ result'[p] = "ok" /\ pre[p] # "absent") =>
                    /\ backups'[Loc(p)] # <<>>
                    /\ target'[Loc(p)] = "artifact"
            /\ (pc[p] = "backup" /\ pc'[p] # "backup") => pc'[p] = "move"]_vars

\* C12: a placement that has returned or raised has left no staging
\* directory, and a staging directory is never both present and promoted to
\* the target.
C12_StagingTransient ==
    /\ \A p \in Callers :
        /\ pc[p] \in {"idle", "done"} => staging[p] = NoStaging
        /\ ~(staging[p] # NoStaging /\ moved[p] # NoStaging)
    /\ hOut # "none" => ~hTemp

\* C13: a handler operation makes no subprocess and no file-system call
\* with an identifier that fails validate_model_id; it ends with a
\* validation error instead.
C13_NoEffectWithInvalidId ==
    (hOut # "none"
       /\ ~validate_model_id(hCall.model_id, handler_provider(hCall.handler)).ok) =>
        /\ hEffects = {}
        /\ hOut = "ValidationError"

\* the injection characters of the specification
InjectionChars == {";", "|", "&", "$", "BQ", "(", ")", "{", "}", "<", ">",
                   "LF", "CR", "NUL"}
HasInjectionChar(text) == \E i \in 1..Len(text) : text[i] \in InjectionChars
Returned(fn) == fnOut.done /\ fnIn.fn = fn

\* C14 as stated: every identifier that matches the HuggingFace grammar and
\* has no injection character is accepted by validate_model_id for
\* huggingface with an empty message.
C14_GrammarAccepted ==
    (Returned("validate_model_id") /\ fnIn.provider = huggingface
       /\ MatchesHF(fnIn.arg) /\ ~HasInjectionChar(fnIn.arg)) =>
        fnOut.ok /\ fnOut.reason = ""

\* C14 amended: every identifier of at most 256 characters that matches the
\* HuggingFace grammar, contains no ".." and has no injection character is
\* accepted by validate_model_id for huggingface with an empty message.
C14_GrammarAcceptedWithoutDotDot ==
    (Returned("validate_model_id") /\ fnIn.provider = huggingface
       /\ MatchesHF(fnIn.arg) /\ ~HasInjectionChar(fnIn.arg)
       /\ Len(fnIn.arg) <= 256 /\ ~Contains(fnIn.arg, <<".", ".">>)) =>
        fnOut.ok /\ fnOut.reason = ""

\* a grammatical identifier with a dot in the model name was accepted
C14_Witness ==
    /\ Returned("validate_model_id") /\ fnIn.provider = huggingface
    /\ fnIn.arg = <<"a", "/", ".">>
    /\ fnOut.ok

\* the first failing check of the fixed order
FirstFailingCheck(id, provider) ==
    IF id = <<>> THEN "empty"
    ELSE IF Len(id) > 256 THEN "length"
    ELSE IF HasInjectionChar(id) THEN "dangerous character"
    ELSE IF Contains(id, <<".", ".">>) \/ id[1] \in {"/", "\\"} THEN "path traversal"
    ELSE IF Lower(provider) = huggingface /\ ~MatchesHF(id) THEN "format"
    ELSE IF Lower(provider) = ollama /\ ~MatchesOllama(id) THEN "format"
    ELSE IF Lower(provider) \notin {huggingface, ollama} THEN "unknown provider"
    ELSE ""

C16_CommandInjection ==
    Returned("validate_command_injection") =>
        fnOut.ok = ~HasInjectionChar(fnIn.arg)

\* a ".." path segment under either slash style, the final segment included
HasDotDotSegment(text) ==
    \E i \in 1..(Len(text) - 1) :
        /\ text[i] = "." /\ text[i + 1] = "."
        /\ i = 1 \/ text[i - 1] \in {"/", "\\"}
        /\ i + 1 = Len(text) \/ text[i + 2] \in {"/", "\\"}

\* C17: validate_path_traversal returns False exactly for a text that has a
\* ".." segment, starts with "/", starts with a drive letter and a colon, or
\* starts with two backslashes.
C17_PathTraversal ==
    Returned("validate_path_traversal") =>
        fnOut.ok = ~(\/ HasDotDotSegment(fnIn.arg)
                     \/ StartsWith(fnIn.arg, <<"/">>)
                     \/ (Len(fnIn.arg) >= 2 /\ fnIn.arg[1] \in Lowers \cup Uppers
                            /\ fnIn.arg[2] = ":")
                     \/ StartsWith(fnIn.arg, <<"\\", "\\">>))

\* C18: sanitize_for_filesystem applied to its own result returns that
\* result, for names of any length, and the empty name gives "unnamed".
C18_SanitizeIdempotent ==
    Returned("sanitize_for_filesystem") =>
        /\ sanitize_for_filesystem(fnOut.text) = fnOut.text
        /\ fnIn.arg = <<>> => fnOut.text = unnamed

RECURSIVE SumHistogram(_, _)
\* histogram[0] + ... + histogram[n - 1]
SumHistogram(histogram, n) ==
    IF n = 0 THEN 0 ELSE histogram[n - 1] + SumHistogram(histogram, n - 1)

\* i is the lowest index at which the histogram has its maximum
IsLowestArgMax(histogram, i) ==
    /\ \A j \in DOMAIN histogram : histogram[j] <= histogram[i]
    /\ \A j \in DOMAIN histogram : j < i => histogram[j] < histogram[i]

\* C19: the index has at most one entry per model_id, every entry has
\* access_count >= 1, an entry accessed n times since it was inserted has
\* access_count n, and right after a record_access its entry is the most
\* recently used one.
C19_IndexCounts ==
    /\ \A i, j \in 1..Len(cache) :
            cache[i].model_id = cache[j].model_id => i = j
    /\ \A i \in 1..Len(cache) :
        /\ cache[i].access_count >= 1
        /\ cache[i].access_count = accesses[cache[i].model_id]
    /\ lastOp.op = "record_access" =>
        /\ cache # <<>>
        /\ cache[Len(cache)].model_id = lastOp.model_id

\* the second access of m:7 since its entry was inserted, after a deletion
\* marker was written, with another entry before it in the index
C19_Witness ==
    /\ lastOp.op = "record_access" /\ lastOp.model_id = id_ollama
    /\ Len(cache) = 2
    /\ cache[2].model_id = id_ollama /\ cache[2].access_count = 2
    /\ markers # {}

\* C20: every usage pattern has sum(hour_histogram) = total_requests =
\* sum(day_histogram), and peak_hour and peak_day are the lowest indices at
\* which the histograms have their maximum.
C20_UsagePatternConsistent ==
    \A m \in CacheModels :
        patterns[m] # NoPattern =>
            /\ SumHistogram(patterns[m].hour_histogram, HoursPerDay)
                    = patterns[m].total_requests
            /\ SumHistogram(patterns[m].day_histogram, DaysPerWeek)
                    = patterns[m].total_requests
            /\ IsLowestArgMax(patterns[m].hour_histogram, patterns[m].peak_hour)
            /\ IsLowestArgMax(patterns[m].day_histogram, patterns[m].peak_day)

\* a model requested once at 23 h on day 6 and once at 0 h on day 0: the
\* peaks are the lower indices, those of the later request
C20_Witness ==
    \E m \in CacheModels :
        /\ patterns[m] # NoPattern
        /\ patterns[m].total_requests = 2
        /\ patterns[m].hour_histogram[23] = 1 /\ patterns[m].hour_histogram[0] = 1
        /\ patterns[m].day_histogram[6] = 1 /\ patterns[m].day_histogram[0] = 1
        /\ patterns[m].peak_hour = 0 /\ patterns[m].peak_day = 0

\* not accessed within the grace window before time t
EvictionEligible(entry, t) == t - entry.last_accessed >= GraceSeconds

\* the size the eviction-eligible entries of the index have together
EligibleSize(entries, t) ==
    SumSizes(SelectSeq(entries, LAMBDA e : EvictionEligible(e, t)))

\* C21: should_cache(model_id, size_gb) returns true if resident size plus
\* size_gb is at or under the target size; otherwise it returns true exactly
\* when the eviction-eligible entries together are at least as large as the
\* shortfall, resident + size_gb - target.
C21_ShouldCacheAdmission ==
    [][(lastOp' # lastOp /\ lastOp'.op = "should_cache") =>
            LET resident == SumSizes(cache)
                size_gb == lastOp'.arg
            IN lastOp'.ret =
                    IF resident + size_gb <= target_size_gb THEN TRUE
                    ELSE EligibleSize(cache, now)
                            >= resident + size_gb - target_size_gb]_vars

\* the step is one cycle of _eviction_monitor
IsEvictionPass == lastOp'.op = "check_and_evict" /\ now' = now

\* the model ids of the entries of an index
IdsOf(entries) == {entries[i].model_id : i \in 1..Len(entries)}

\* C22: an eviction pass removes no entry and marks no entry that was
\* accessed within the grace window, and when resident size exceeds the
\* target and every entry is within the grace window the pass leaves the
\* index unchanged and writes no deletion marker.
C22_GraceWindowProtected ==
    [][IsEvictionPass =>
        /\ \A i \in 1..Len(cache) :
                (cache[i].model_id \notin IdsOf(cache')
                        \/ cache[i].model_id \in markers' \ markers) =>
                    now - cache[i].last_accessed >= GraceSeconds
        /\ (SumSizes(cache) > target_size_gb
                /\ \A i \in 1..Len(cache) :
                        now - cache[i].last_accessed < GraceSeconds) =>
                (cache' = cache /\ markers' = markers)]_vars

\* an eviction pass has just run over an index above the target whose two
\* entries were all accessed within the grace window
C22_Witness ==
    /\ lastOp.op = "check_and_evict"
    /\ Len(cache) = 2
    /\ SumSizes(cache) > target_size_gb
    /\ \A i \in 1..Len(cache) : now - cache[i].last_accessed < GraceSeconds
    /\ markers = {}

\* the position of the least recently accessed entry, the first of them in
\* the index if several were accessed at the same time
Oldest(entries) ==
    CHOOSE i \in 1..Len(entries) :
        \A j \in 1..Len(entries) :
            \/ entries[i].last_accessed < entries[j].last_accessed
            \/ entries[i].last_accessed = entries[j].last_accessed /\ i <= j

\* max 10 GB, three entries of 3 GB, the oldest last accessed more than the
\* grace window ago
IsEvictionScenario ==
    /\ maxCacheSizeGb = ScenarioConfig.max_cache_size_gb
    /\ Len(cache) = 3
    /\ \A i \in 1..3 : cache[i].size_gb = ScenarioConfig.size_gb
    /\ now - cache[Oldest(cache)].last_accessed > GraceSeconds

LoadTimeTiers ==
    << [substrings |-> {<<"7","0","b">>}, ms |-> 30000],
       [substrings |-> {<<"1","3","b">>, <<"1","5","b">>}, ms |-> 15000],
       [substrings |-> {<<"7","b">>, <<"8","b">>}, ms |-> 8000],
       [substrings |-> {<<"3","b">>}, ms |-> 4000] >>

TierMatches(k, model_id) ==
    \E sub \in LoadTimeTiers[k].substrings : Contains(str_lower(model_id), sub)

\* the default of the first tier with a matching substring, 10000 otherwise
TieredDefault(model_id) ==
    IF \E k \in 1..Len(LoadTimeTiers) : TierMatches(k, model_id)
    THEN LoadTimeTiers[CHOOSE k \in 1..Len(LoadTimeTiers) :
                            /\ TierMatches(k, model_id)
                            /\ \A j \in 1..(k - 1) : ~TierMatches(j, model_id)].ms
    ELSE 10000

\* C24: get_model_load_time_estimate returns the resident constant for a
\* resident model, else the load_time_ms last observed for the model if one
\* was observed, else the tiered default.
C24_LoadTimeEstimate ==
    lastOp.op = "get_model_load_time_estimate" =>
        LET m == lastOp.model_id IN
            lastOp.ret =
                IF m \in IdsOf(cache) THEN 100
                ELSE IF m \in DOMAIN observedLoad /\ observedLoad[m] > 0
                    THEN observedLoad[m]
                ELSE TieredDefault(m)

\* the step is clear_cache(force=False), clear_cache(force=True)
IsSoftClear == lastOp'.op = "clear_cache" /\ lastOp'.arg = FALSE /\ now' = now
IsForceClear == lastOp'.op = "clear_cache" /\ lastOp'.arg = TRUE /\ now' = now

\* C25: clear_cache(force=False) keeps the top 20% of the entries by
\* access_count (the fifth of the entry count, rounded down or up) and
\* evicts the remainder: every kept entry has access_count at least that of
\* every evicted entry, and the returned kept and cleared counts and freed
\* size are those of what was kept and removed, so that kept + cleared is
\* the prior entry count, also for an empty cache.
C25_SoftClearKeepsTopFifth ==
    [][IsSoftClear =>
        LET prior == Len(cache)
            kept == Len(cache')
        IN  /\ ~lastOp'.raised
            /\ IdsOf(cache') \subseteq IdsOf(cache)
            /\ \A i \in 1..Len(cache), j \in 1..Len(cache) :
                    (cache[i].model_id \in IdsOf(cache')
                        /\ cache[j].model_id \notin IdsOf(cache')) =>
                        cache[i].access_count >= cache[j].access_count
            /\ kept \in {prior \div 5, (prior + 4) \div 5}
            /\ lastOp'.ret.kept_models = kept
            /\ lastOp'.ret.cleared_models = prior - kept
            /\ lastOp'.ret.cleared_size_gb = SumSizes(cache) - SumSizes(cache')
            /\ lastOp'.ret.kept_models + lastOp'.ret.cleared_models = prior]_vars

\* C26: clear_cache(force=True) leaves the index and the usage-pattern table
\* empty, writes a deletion marker for every entry that was resident, and
\* returns the number and total size of the entries that were resident.
C26_ForceClearEmptiesAll ==
    [][IsForceClear =>
        /\ ~lastOp'.raised
        /\ cache' = <<>>
        /\ \A m \in DOMAIN patterns' : patterns'[m] = NoPattern
        /\ IdsOf(cache) \subseteq markers'
        /\ lastOp'.ret.cleared_models = Len(cache)
        /\ lastOp'.ret.cleared_size_gb = SumSizes(cache)]_vars

\* C27: an eviction pass and clear_cache(force=False) leave the usage-pattern
\* table unchanged, a pattern is removed only by clear_cache(force=True), and
\* the pattern of a model, resident or evicted, goes on accumulating when the
\* model is accessed again.
C27_PatternsOutliveEviction ==
    [][/\ (IsEvictionPass \/ IsSoftClear) => patterns' = patterns
       /\ \A m \in DOMAIN patterns :
            /\ (patterns[m] # NoPattern /\ patterns'[m] = NoPattern) => IsForceClear
            /\ (patterns[m] # NoPattern /\ patterns'[m] # patterns[m]
                    /\ ~IsForceClear) =>
                    /\ lastOp'.op = "record_access" /\ lastOp'.model_id = m
                    /\ patterns'[m].total_requests = patterns[m].total_requests + 1
                    /\ \A h \in DOMAIN patterns[m].hour_histogram :
                            patterns'[m].hour_histogram[h]
                                >= patterns[m].hour_histogram[h]
                    /\ \A w \in DOMAIN patterns[m].day_histogram :
                            patterns'[m].day_histogram[w]
                                >= patterns[m].day_histogram[w]]_vars

\* a model was evicted (its deletion marker is written) and accessed again:
\* its entry is new, its pattern has both requests
C27_Witness ==
    \E i \in 1..Len(cache) :
        /\ cache[i].model_id \in markers
        /\ cache[i].access_count = 1
        /\ patterns[cache[i].model_id].total_requests = 2
        /\ lastOp.op = "record_access" /\ lastOp.model_id = cache[i].model_id

\* the step is a restart: the process ended and a new manager was built
IsRestart == lastOp'.op = "restart" /\ disk' = disk /\ metadataFile' = metadataFile

\* C28: a manager built after the index was persisted holds, in the order of
\* the persisted index, exactly the persisted entries whose path exists on
\* the disk, each with the fields it was persisted with.
C28_PersistReloadRoundTrip ==
    [][IsRestart =>
        cache' = SelectSeq(savedIndex,
                           LAMBDA entry : PathExists(entry.path, disk))]_vars

\* a restarted manager reloaded one of two persisted entries: the one whose
\* path exists, with its access count of 2
C28_Witness ==
    /\ lastOp.op = "restart"
    /\ Len(savedIndex) = 2
    /\ Len(cache) = 1
    /\ cache[1] \in {savedIndex[1], savedIndex[2]}
    /\ cache[1].access_count = 2
    /\ \E i \in 1..2 : ~PathExists(savedIndex[i].path, disk)

\* C29: a restarted manager holds every entry the manager held when the
\* process ended whose path exists, and every usage pattern, whether or not
\* the persister ran after the last access.
C29_ShutdownPersists ==
    [][IsRestart =>
        /\ cache' = SelectSeq(cache, LAMBDA entry : PathExists(entry.path, disk))
        /\ patterns' = patterns]_vars

\* strictly inside the root: below it, and not the root itself
StrictlyInside(path, base) == IsUnder(path, base) /\ path # base

\* C30: the path of every entry of the index resolves strictly inside the
\* configured root.
C30_EntryPathsInsideRoot ==
    \A i \in 1..Len(cache) : StrictlyInside(Resolve(cache[i].path), nvme_path)

\* C31: an eviction pass over an index at or under the target evicts nothing;
\* over an index above the target it evicts only eviction-eligible entries,
\* never one while an eligible entry last accessed before it stays, and never
\* one more than needed: with the last evicted entry put back the index
\* would be above the target.
C31_EvictsLruPrefix ==
    [][IsEvictionPass =>
        LET evicted == {i \in 1..Len(cache) : cache[i].model_id \notin IdsOf(cache')}
        IN /\ cache' = SelectSeq(cache, LAMBDA e : e.model_id \in IdsOf(cache'))
           /\ SumSizes(cache) <= target_size_gb => evicted = {}
           /\ \A i \in evicted :
                /\ EvictionEligible(cache[i], now)
                /\ \A j \in 1..Len(cache) :
                      (EvictionEligible(cache[j], now)
                            /\ cache[j].last_accessed < cache[i].last_accessed)
                        => j \in evicted
           /\ evicted # {} =>
                \E i \in evicted :
                    /\ \A j \in evicted :
                            cache[j].last_accessed <= cache[i].last_accessed
                    /\ SumSizes(cache') + cache[i].size_gb > target_size_gb]_vars

\* a pass evicted one entry and stopped at the target: of the two entries
\* left, one was last accessed a grace window after the manager started
C31_Witness ==
    /\ lastOp.op = "check_and_evict" /\ ~lastOp.raised
    /\ Len(cache) = 2 /\ SumSizes(cache) <= target_size_gb
    /\ Cardinality(markers) = 1 /\ markers \cap IdsOf(cache) = {}
    /\ \E i \in 1..2 : cache[i].last_accessed = GraceSeconds

\* some resident entry is eviction-eligible
SomeEligible == \E i \in 1..Len(cache) : EvictionEligible(cache[i], now)

\* C32: once the accesses have stopped, whenever resident size exceeds the
\* target, eventually resident size is at or under the target or no resident
\* entry is eviction-eligible, whatever the model ids look like.
C32_EvictionProgress ==
    (now > 0 /\ SumSizes(cache) > target_size_gb)
        ~> (SumSizes(cache) <= target_size_gb \/ ~SomeEligible)

\* the step is one cycle of _predictive_preloader
IsPredictivePass == lastOp'.op = "check_predictive_loading" /\ now' = now

\* weekdays on which the pattern has any request, at least 1
ActiveDays(pattern) ==
    LET n == Cardinality({d \in DOMAIN pattern.day_histogram :
                            pattern.day_histogram[d] > 0})
    IN IF n > 1 THEN n ELSE 1

C37_MarkedNotResident == markers \cap IdsOf(cache) = {}

\* C38: when a model was admitted with the size should_cache had accepted
\* for it, and nothing was accessed since, the next eviction pass leaves
\* resident size at or under the target.
C38_AdmissionConsistent ==
    [][(lastOp.op = "admit" /\ IsEvictionPass) =>
            SumSizes(cache') <= target_size_gb]_vars

\* C39: every resident entry has a usage pattern, and the pattern counts at
\* least as many requests as the entry counts accesses.
C39_PatternCoversEntry ==
    \A i \in 1..Len(cache) :
        /\ patterns[cache[i].model_id] # NoPattern
        /\ patterns[cache[i].model_id].total_requests >= cache[i].access_count

RECURSIVE SumOf(_)
\* the sum of a sequence of amounts
SumOf(amounts) ==
    IF amounts = <<>> THEN 0 ELSE Head(amounts) + SumOf(Tail(amounts))

\* C40: the spend of the hard-limit department never exceeds its monthly
\* limit, it is the sum of the recorded costs, and a call is reported
\* blocked without anything being recorded.
C40_HardLimitHolds ==
    /\ budget.is_hard_limit => budget.current_spend_usd <= budget.monthly_limit_usd
    /\ budget.current_spend_usd = SumOf(costs)

\* C34: each of the three background loops runs a cycle again and again,
\* whatever failed in a cycle of that loop or of another loop.
C34_LoopsRunForever ==
    /\ []<>(At("eviction") = "scan")
    /\ []<>(At("prediction") = "iterate")
    /\ []<>(At("persistence") = "save_usage_patterns")

\* the eviction loop is in a new cycle after the cycle before it raised
C34_Witness ==
    /\ lastOp.op = "check_and_evict" /\ lastOp.raised
    /\ At("eviction") = "scan"

\* the positions at which a thread is in a filesystem call
InFilesystemCall(t) ==
    \/ t = "eviction" /\ At(t) = "touch"
    \/ t = "persistence" /\ At(t) = "save_usage_patterns"

\* C35: no thread is in a filesystem call while it holds the cache lock.
C35_NoIoUnderLock ==
    \A t \in Threads : InFilesystemCall(t) => cache_lock # t

\* the positions at which a thread reads the pattern table
ReadsPatterns(t) ==
    \/ t = "prediction" /\ At(t) \in {"iterate", "iterate_resized"}
    \/ t = "persistence" /\ At(t) = "save_usage_patterns"

\* C36: a thread that reads the pattern table holds the cache lock, so that
\* no thread reads the table while record_access is changing it.
C36_ReadersHoldLock ==
    \A t \in Threads :
        ReadsPatterns(t) =>
            /\ cache_lock = t
            /\ At("caller") # "update_pattern"

====
